---- MODULE Spec2Model ----
(***************************************************************************)
(* A model of the queryGym reformulation framework.                        *)
(*                                                                         *)
(* Strings are sequences of lexemes (a lexeme is one character, or one     *)
(* word whose characters the code never looks inside).  Python's string    *)
(* operations are modelled on these sequences.                             *)
(***************************************************************************)
EXTENDS Integers, Sequences, FiniteSets, TLC

(***************************************************************************)
(* Bounds of the model.                                                    *)
(***************************************************************************)
\* the largest number of generations one reformulate call is configured with
MaxGen == 2

(***************************************************************************)
(* Python string operations on lexeme sequences.                           *)
(***************************************************************************)
None == "None"

Whitespace == {" ", "\n", "\t", "\r"}

\* str.lstrip(chars)
RECURSIVE LStripChars(_, _)
LStripChars(s, cs) ==
    IF s # <<>> /\ Head(s) \in cs THEN LStripChars(Tail(s), cs) ELSE s

\* str.rstrip(chars)
RECURSIVE RStripChars(_, _)
RStripChars(s, cs) ==
    IF s # <<>> /\ s[Len(s)] \in cs
    THEN RStripChars(SubSeq(s, 1, Len(s) - 1), cs)
    ELSE s

\* str.strip(chars)
StripChars(s, cs) == RStripChars(LStripChars(s, cs), cs)

\* str.strip()
Strip(s) == StripChars(s, Whitespace)

\* str.split(sep) for a one-lexeme separator: always at least one field
RECURSIVE SplitFrom(_, _, _)
SplitFrom(s, sep, cur) ==
    IF s = <<>> THEN <<cur>>
    ELSE IF Head(s) = sep THEN <<cur>> \o SplitFrom(Tail(s), sep, <<>>)
    ELSE SplitFrom(Tail(s), sep, Append(cur, Head(s)))

Split(s, sep) == SplitFrom(s, sep, <<>>)

\* sep.join(parts)
RECURSIVE Join(_, _)
Join(parts, sep) ==
    IF parts = <<>> THEN <<>>
    ELSE IF Len(parts) = 1 THEN parts[1]
    ELSE parts[1] \o sep \o Join(Tail(parts), sep)

\* " ".join(parts)
JoinSp(parts) == Join(parts, <<" ">>)

\* list concatenation of a list of lists (repeated list.extend)
RECURSIVE Flatten(_)
Flatten(lists) ==
    IF lists = <<>> THEN <<>> ELSE Head(lists) \o Flatten(Tail(lists))

\* [x] * n
RECURSIVE Repeat(_, _)
Repeat(x, n) == IF n <= 0 THEN <<>> ELSE <<x>> \o Repeat(x, n - 1)

\* [f(x) for x in xs if keep(x)] helpers
RECURSIVE MapStrip(_)
MapStrip(xs) ==
    IF xs = <<>> THEN <<>> ELSE <<Strip(Head(xs))>> \o MapStrip(Tail(xs))

NonEmpty(x) == x # <<>>

Max(a, b) == IF a >= b THEN a ELSE b
Min(a, b) == IF a <= b THEN a ELSE b

(***************************************************************************)
(* Python values that may be None: contexts=None and contexts=[] are       *)
(* different arguments.                                                    *)
(***************************************************************************)
NoneVal == [isNone |-> TRUE, v |-> <<>>]
Some(x) == [isNone |-> FALSE, v |-> x]

\* a dict is a function on its keys: the empty dict
EmptyKwargs == [k \in {} |-> 0]

\* contexts or [] with None taken for a list of one passage
OrEmptyListKeepingNone(x) == IF x.isNone THEN <<(<<"None">>)>> ELSE x.v

\* `x or []` for a list argument that may be None
OrEmptyList(x) == IF x.isNone \/ x.v = <<>> THEN <<>> ELSE x.v

(***************************************************************************)
(* core/base.py: QueryItem, ReformulationResult                            *)
(***************************************************************************)
QueryItem(qid, text) == [qid |-> qid, text |-> text]

\* a result whose original field carries the reformulated text
ReformulationResultOfOutput(qid, original, reformulated, metadata) ==
    [qid |-> qid, original |-> reformulated, reformulated |-> reformulated,
     metadata |-> metadata]

ReformulationResult(qid, original, reformulated, metadata) ==
    [qid |-> qid, original |-> original, reformulated |-> reformulated,
     metadata |-> metadata]

\* a chat request: the messages rendered from prompt `id` with the variables
\* query and arg (contexts, examples, questions or answers), and the number
\* of completions asked for
Msg(id, query, arg, n) == [id |-> id, query |-> query, arg |-> arg, n |-> n]

(***************************************************************************)
(* BaseReformulator.concatenate_result: the concatenation strategies.      *)
(***************************************************************************)
\* query_repeat_plus_generated
QueryRepeatPlusGenerated(query, generated, repeats) ==
    JoinSp(Repeat(query, repeats)) \o <<" ">> \o generated

\* the query once, then every generated passage
QueryOnceThenContent(query, passages) ==
    IF passages = <<>> THEN <<>> ELSE JoinSp(<<query>> \o passages)

\* interleaved_query_content over a list of generated passages
RECURSIVE InterleavedQueryContent(_, _)
InterleavedQueryContent(query, passages) ==
    IF passages = <<>> THEN <<>>
    ELSE IF Len(passages) = 1 THEN query \o <<" ">> \o passages[1]
    ELSE query \o <<" ">> \o passages[1] \o <<" ">>
         \o InterleavedQueryContent(query, Tail(passages))

\* repetition_times of adaptive_query_repeat_plus_generated
RepetitionTimes(query_len, docs_len, adaptive_times) ==
    IF query_len > 0
    THEN Max(1, (docs_len \div query_len) \div adaptive_times)
    ELSE 1

\* adaptive_query_repeat_plus_generated
AdaptiveQueryRepeatPlusGenerated(query, generated, adaptive_times) ==
    Flatten(Repeat(query \o <<" ">>,
                   RepetitionTimes(Len(query), Len(generated), adaptive_times)))
    \o generated

(***************************************************************************)
(* methods/genqr_ensemble.py                                               *)
(***************************************************************************)
VARIANT_IDS ==
    << "genqr_ensemble.inst1.v1", "genqr_ensemble.inst2.v1",
       "genqr_ensemble.inst3.v1", "genqr_ensemble.inst4.v1",
       "genqr_ensemble.inst5.v1", "genqr_ensemble.inst6.v1",
       "genqr_ensemble.inst7.v1", "genqr_ensemble.inst8.v1",
       "genqr_ensemble.inst9.v1", "genqr_ensemble.inst10.v1" >>

\* GenQREnsemble.DEFAULT_QUERY_REPEATS
EnsembleQueryRepeats == 5

\* the lexeme standing for the bullet character U+2022
Bullet == "bullet"

\* one line of a bullet list: strip, drop one leading dash, bullet or asterisk
BulletLine(line) ==
    LET l == Strip(line)
    IN  IF l # <<>> /\ Head(l) \in {"-", Bullet, "*"} THEN Strip(Tail(l)) ELSE l

RECURSIVE BulletLines(_)
BulletLines(lines) ==
    IF lines = <<>> THEN <<>>
    ELSE LET l == BulletLine(Head(lines))
         IN  (IF l # <<>> THEN <<l>> ELSE <<>>) \o BulletLines(Tail(lines))

\* [k.strip() for k in fields if k.strip()]
RECURSIVE StripNonEmpty(_)
StripNonEmpty(fields) ==
    IF fields = <<>> THEN <<>>
    ELSE LET k == Strip(Head(fields))
         IN  (IF k # <<>> THEN <<k>> ELSE <<>>) \o StripNonEmpty(Tail(fields))

Contains(s, c) == \E i \in 1..Len(s) : s[i] = c

StartsWith(s, c) == s # <<>> /\ Head(s) = c

\* a parser that knows the comma format only
ParseKeywordsCommaOnly(keywords_text) == StripNonEmpty(Split(keywords_text, ","))

\* GenQREnsemble._parse_keywords
ParseKeywords(keywords_text) ==
    IF Contains(keywords_text, "\n") \/ StartsWith(Strip(keywords_text), "-")
    THEN BulletLines(Split(keywords_text, "\n"))
    ELSE StripNonEmpty(Split(keywords_text, ","))

(***************************************************************************)
(* methods/mugi.py                                                         *)
(***************************************************************************)
\* pseudo_doc.strip().strip('"').strip("'")
CleanQuotes(s) == StripChars(StripChars(Strip(s), {"\""}), {"'"})

\* MuGI: mode -> prompt id (an invalid mode is a ValueError)
MuGIPromptId(mode) ==
    IF mode \in {"fs", "fewshot"} THEN "mugi.fewshot.v1"
    ELSE IF mode \in {"zs", "zeroshot"} THEN "mugi.zeroshot.v1"
    ELSE "ValueError"

\* MuGI.reformulate from the joined pseudo-documents on
MuGIResult(p, q, pseudo_docs) ==
    LET all_pseudo_docs == JoinSp(pseudo_docs)
    IN  ReformulationResult(q.qid, q.text,
            AdaptiveQueryRepeatPlusGenerated(q.text, all_pseudo_docs,
                                             p.adaptive_times),
            [pseudo_docs |-> pseudo_docs,
             num_docs |-> p.n,
             adaptive_times |-> p.adaptive_times,
             repetition_times |->
                 RepetitionTimes(Len(q.text), Len(all_pseudo_docs),
                                 p.adaptive_times),
             query_len |-> Len(q.text),
             docs_len |-> Len(all_pseudo_docs),
             mode |-> p.mode,
             prompt_id |-> MuGIPromptId(p.mode),
             parallel |-> p.parallel])

\* GenQREnsemble.reformulate from the merged keywords on; raw[i] is the
\* output of variant i
EnsembleResult(p, q, all_keywords, raw) ==
    ReformulationResult(q.qid, q.text,
        QueryRepeatPlusGenerated(q.text, JoinSp(all_keywords),
                                 EnsembleQueryRepeats),
        [num_variants |-> p.n,
         total_keywords |-> Len(all_keywords),
         keywords |-> all_keywords,
         variant_outputs |->
             [i \in 1..p.n |->
                 [prompt_id |-> VARIANT_IDS[i],
                  raw_output |-> raw[i],
                  keywords |-> ParseKeywords(raw[i]),
                  count |-> Len(ParseKeywords(raw[i]))]],
         parallel |-> p.parallel])

(***************************************************************************)
(* methods/genqr.py                                                        *)
(***************************************************************************)
\* str.replace(a, b) for one-lexeme a and b
Replace(s, a, b) == [i \in 1..Len(s) |-> IF s[i] = a THEN b ELSE s[i]]

\* [t.strip() for t in out.replace("\n", " ").split(",") if t.strip()]
CommaTerms(out) == StripNonEmpty(Split(Replace(out, "\n", " "), ","))

RECURSIVE MapJoinSp(_)
MapJoinSp(lists) ==
    IF lists = <<>> THEN <<>>
    ELSE <<JoinSp(Head(lists))>> \o MapJoinSp(Tail(lists))

\* GENQR.reformulate from the keyword lists on
GenQRResult(p, q, all_keywords_lists) ==
    ReformulationResult(q.qid, q.text,
        JoinSp(<<q.text>> \o MapJoinSp(all_keywords_lists)),
        [n_generations |-> p.n,
         all_keywords_lists |-> all_keywords_lists,
         total_keywords |-> Len(Flatten(all_keywords_lists)),
         keywords |-> Flatten(all_keywords_lists)])

(***************************************************************************)
(* methods/lamer.py                                                        *)
(***************************************************************************)
NumStr == <<"1", "2", "3", "4", "5", "6", "7", "8", "9", "10">>

\* ctxs[:retrieval_k]
PromptCtxs(ctxs, retrieval_k) ==
    IF retrieval_k >= 0
    THEN SubSeq(ctxs, 1, Min(retrieval_k, Len(ctxs)))
    ELSE SubSeq(ctxs, 1, Len(ctxs) + retrieval_k)

\* "\n".join([f"{i+1}. {psg}" for i, psg in enumerate(prompt_ctxs)])
ContextsBlob(prompt_ctxs) ==
    Join([i \in 1..Len(prompt_ctxs) |->
             <<NumStr[i], ".", " ">> \o prompt_ctxs[i]],
         <<"\n">>)

\* LameR.reformulate from the generated passages on
LameRResult(p, q, contexts, gen_passages) ==
    ReformulationResult(q.qid, q.text,
        InterleavedQueryContent(q.text, gen_passages),
        [generated_passages |-> gen_passages,
         generated_passages_count |-> Len(gen_passages),
         used_ctx |-> Len(PromptCtxs(OrEmptyList(contexts), p.retrieval_k))])

(***************************************************************************)
(* methods/csqe.py                                                         *)
(***************************************************************************)
Digits == {"0", "1", "2", "3", "4", "5", "6", "7", "8", "9", "10"}

\* the lexeme standing for the header "Relevant Documents" in any case
RelevantDocuments == "Relevant Documents"

\* the least index >= i of s holding c, or 0
RECURSIVE IndexFrom(_, _, _)
IndexFrom(s, c, i) ==
    IF i > Len(s) THEN 0
    ELSE IF s[i] = c THEN i
    ELSE IndexFrom(s, c, i + 1)

\* re.findall(r'"([^"]*)"', s) from index i on
RECURSIVE QuotedFrom(_, _)
QuotedFrom(s, i) ==
    LET a == IndexFrom(s, "\"", i)
        b == IF a = 0 THEN 0 ELSE IndexFrom(s, "\"", a + 1)
    IN  IF a = 0 \/ b = 0 THEN <<>>
        ELSE <<SubSeq(s, a + 1, b - 1)>> \o QuotedFrom(s, b + 1)

\* the least index >= i of s that holds no lexeme of cs, or Len(s) + 1
RECURSIVE SkipRun(_, _, _)
SkipRun(s, cs, i) ==
    IF i > Len(s) THEN Len(s) + 1
    ELSE IF s[i] \in cs THEN SkipRun(s, cs, i + 1)
    ELSE i

\* re.sub(r'^Relevant Documents?:?\s*\n?', '', s, flags=I|M) from index i on
RECURSIVE RemoveHeaderFrom(_, _)
RemoveHeaderFrom(s, i) ==
    IF i > Len(s) THEN <<>>
    ELSE IF s[i] = RelevantDocuments /\ (i = 1 \/ s[i - 1] = "\n")
    THEN LET j == IF i + 1 <= Len(s) /\ s[i + 1] = ":" THEN i + 2 ELSE i + 1
         IN  RemoveHeaderFrom(s, SkipRun(s, Whitespace, j))
    ELSE <<s[i]>> \o RemoveHeaderFrom(s, i + 1)

\* whether \d+[\.:] matches at index i of s
MarkerAt(s, i) ==
    /\ i <= Len(s)
    /\ s[i] \in Digits
    /\ LET j == SkipRun(s, Digits, i)
       IN  j <= Len(s) /\ s[j] \in {".", ":"}

\* whether (?=\d+[\.:]|$) holds at index e of s
ContentEndAt(s, e) ==
    \/ e = Len(s) + 1
    \/ e = Len(s) /\ s[e] = "\n"
    \/ MarkerAt(s, e)

RECURSIVE LazyEnd(_, _)
LazyEnd(s, e) == IF ContentEndAt(s, e) THEN e ELSE LazyEnd(s, e + 1)

\* re.findall(r'\d+[\.:]\s*(.+?)(?=\d+[\.:]|$)', s, re.DOTALL) from index i on
RECURSIVE DocContentFrom(_, _)
DocContentFrom(s, i) ==
    IF i > Len(s) THEN <<>>
    ELSE IF ~MarkerAt(s, i) THEN DocContentFrom(s, i + 1)
    ELSE LET after == SkipRun(s, Digits, i) + 1
             w == SkipRun(s, Whitespace, after)
         IN  IF w <= Len(s)
             THEN LET e == LazyEnd(s, w + 1)
                  IN  <<SubSeq(s, w, e - 1)>> \o DocContentFrom(s, e)
             ELSE IF w > after
             THEN <<SubSeq(s, Len(s), Len(s))>>
             ELSE DocContentFrom(s, i + 1)

\* str.split(): the maximal runs of non-whitespace
RECURSIVE SplitWS(_, _)
SplitWS(s, cur) ==
    IF s = <<>> THEN (IF cur = <<>> THEN <<>> ELSE <<cur>>)
    ELSE IF Head(s) \in Whitespace
    THEN (IF cur = <<>> THEN <<>> ELSE <<cur>>) \o SplitWS(Tail(s), <<>>)
    ELSE SplitWS(Tail(s), Append(cur, Head(s)))

\* [" ".join(c.split()) for c in contents], the empty ones dropped
RECURSIVE CleanContents(_)
CleanContents(contents) ==
    IF contents = <<>> THEN <<>>
    ELSE LET c == JoinSp(SplitWS(Head(contents), <<>>))
         IN  (IF c # <<>> THEN <<c>> ELSE <<>>) \o CleanContents(Tail(contents))

\* CSQE._extract_key_sentences
ExtractKeySentences(response) ==
    LET sentences == QuotedFrom(response, 1)
        extracted == CleanContents(
                         DocContentFrom(RemoveHeaderFrom(response, 1), 1))
    IN  IF sentences # <<>> THEN JoinSp(sentences)
        ELSE JoinSp(extracted)

RECURSIVE MapExtract(_)
MapExtract(responses) ==
    IF responses = <<>> THEN <<>>
    ELSE <<ExtractKeySentences(Head(responses))>> \o MapExtract(Tail(responses))

RECURSIVE MapCleanQuotes(_)
MapCleanQuotes(xs) ==
    IF xs = <<>> THEN <<>>
    ELSE <<CleanQuotes(Head(xs))>> \o MapCleanQuotes(Tail(xs))

\* str.lower(): the upper-case lexemes of the model and their lower case
LowerOf(c) ==
    CASE c = "Q" -> "q" [] c = "D" -> "d" [] c = "S" -> "s"
      [] c = "P" -> "p" [] c = RelevantDocuments -> "relevant documents"
      [] OTHER -> c

Lower(s) == [i \in 1..Len(s) |-> LowerOf(s[i])]

\* CSQE.reformulate from the two completions lists on
\* parts of CSQE.reformulate
CSQEParts(text, n, keqe_passages, csqe_sentences) ==
    Repeat(text, n) \o keqe_passages \o csqe_sentences

\* reformulated of CSQE.reformulate:
\* " ".join(parts).lower().strip().strip('"').strip("'")
CSQEReformulated(text, n, keqe_passages, csqe_sentences) ==
    StripChars(StripChars(Strip(Lower(JoinSp(
        CSQEParts(text, n, keqe_passages, csqe_sentences)))), {"\""}), {"'"})

CSQEResult(p, q, contexts, keqe_choices, csqe_responses) ==
    LET keqe_passages == MapCleanQuotes(keqe_choices)
        csqe_sentences == MapExtract(csqe_responses)
    IN  ReformulationResult(q.qid, q.text,
            CSQEReformulated(q.text, p.n, keqe_passages, csqe_sentences),
            [keqe_passages |-> keqe_passages,
             csqe_responses |-> csqe_responses,
             csqe_sentences |-> csqe_sentences,
             gen_num |-> p.n,
             total_generations |-> p.n * 2,
             used_ctx |->
                 Len(PromptCtxs(OrEmptyList(contexts), p.retrieval_k))])

(***************************************************************************)
(* methods/query2doc.py, methods/query2e.py                                *)
(***************************************************************************)
\* the text _format_examples makes of the examples sampled from the loaded
\* training data
ExamplesText == <<"Query:", " ", "x", "\n", "Passage:", " ", "y", "\n", "\n">>

\* the query repetitions concatenate_result applies for Query2Doc
Query2DocQueryRepeats == 1

\* Query2E.DEFAULT_QUERY_REPEATS
Query2EQueryRepeats == 5

FewShotModes == {"fs", "fewshot"}

Query2DocPromptId(mode) ==
    IF mode \in FewShotModes THEN "query2doc.fewshot.v1"
    ELSE IF mode = "cot" THEN "query2doc.cot.v1"
    ELSE "query2doc.zeroshot.v1"

\* the except branch without the fallback flag
FallbackResultUnflagged(p, q, error_msg) ==
    ReformulationResult(q.qid, q.text, q.text,
        [mode |-> p.mode, error |-> error_msg, fallback |-> FALSE])

\* the except branch of Query2Doc.reformulate and of Query2E.reformulate
FallbackResult(p, q, error_msg) ==
    ReformulationResult(q.qid, q.text, q.text,
        [mode |-> p.mode, error |-> error_msg, fallback |-> TRUE])

\* only the empty completion counts as no pseudo-document
IsEmptyOnly(s) == s = <<>>

\* not pseudo_doc or not pseudo_doc.strip()
IsBlank(s) == s = <<>> \/ Strip(s) = <<>>

\* Query2Doc.reformulate from the chat output on
Query2DocResult(p, q, pseudo_doc) ==
    IF IsBlank(pseudo_doc)
    THEN FallbackResult(p, q, "LLM returned empty pseudo-document")
    ELSE ReformulationResult(q.qid, q.text,
             QueryRepeatPlusGenerated(q.text, pseudo_doc, Query2DocQueryRepeats),
             IF p.mode \in FewShotModes
             THEN [mode |-> p.mode, num_examples |-> 1,
                   prompt_id |-> Query2DocPromptId(p.mode),
                   pseudo_doc |-> pseudo_doc]
             ELSE [mode |-> p.mode,
                   prompt_id |-> Query2DocPromptId(p.mode),
                   pseudo_doc |-> pseudo_doc])

\* terms[:max_keywords]
Truncate(terms, max_keywords) ==
    IF Len(terms) > max_keywords THEN SubSeq(terms, 1, max_keywords) ELSE terms

\* Query2E.reformulate from the chat output on
Query2EResult(p, q, out) ==
    LET terms == Truncate(CommaTerms(out), p.max_keywords)
    IN  ReformulationResult(q.qid, q.text,
            QueryRepeatPlusGenerated(q.text, JoinSp(terms), Query2EQueryRepeats),
            IF p.mode \in FewShotModes
            THEN [mode |-> p.mode, prompt_id |-> "q2e.fs.v1",
                  num_examples |-> 1, keywords |-> terms]
            ELSE [mode |-> p.mode, prompt_id |-> "q2e.zs.v1",
                  keywords |-> terms])

(***************************************************************************)
(* json.loads on lexeme sequences.  A JSON value is a record: t its type   *)
(* (dict, list, str, num, lit), s the text of a string, number or literal, *)
(* kv the <<key, value>> pairs of a dict in insertion order, or the        *)
(* <<index, value>> pairs of a list.                                       *)
(***************************************************************************)
JVal(t, s, kv) == [t |-> t, s |-> s, kv |-> kv]

EmptyDict == JVal("dict", <<>>, <<>>)

JStr(s) == JVal("str", s, <<>>)

\* d[key] = val on the pairs of a dict
RECURSIVE DictSet(_, _, _)
DictSet(kv, key, val) ==
    IF kv = <<>> THEN <<(<<key, val>>)>>
    ELSE IF Head(kv)[1] = key THEN <<(<<key, val>>)>> \o Tail(kv)
    ELSE <<Head(kv)>> \o DictSet(Tail(kv), key, val)

JsonWhitespace == {" ", "\n", "\t", "\r"}

JsonLiterals == {"null", "true", "false", "NaN", "Infinity"}

Backslash == "\\"

\* a parse step: whether it matched, the value, the index after it
Parsed(val, pos) == [ok |-> TRUE, val |-> val, pos |-> pos]
NoParse == [ok |-> FALSE, val |-> EmptyDict, pos |-> 0]

\* a JSON string from the opening quote at index i on; j scans its content
RECURSIVE ParseStringFrom(_, _, _)
ParseStringFrom(s, j, content) ==
    IF j > Len(s) THEN NoParse
    ELSE IF s[j] = "\"" THEN Parsed(JStr(content), j + 1)
    ELSE IF s[j] \in {"\n", "\t", "\r"} THEN NoParse
    ELSE IF s[j] = Backslash
    THEN IF j + 1 <= Len(s) /\ s[j + 1] \in {"\"", Backslash, "/", "n", "t"}
         THEN ParseStringFrom(s, j + 2,
                  Append(content,
                         CASE s[j + 1] = "n" -> "\n"
                           [] s[j + 1] = "t" -> "\t"
                           [] OTHER -> s[j + 1]))
         ELSE NoParse
    ELSE ParseStringFrom(s, j + 1, Append(content, s[j]))

JsonDigits == {"0", "1", "2", "3", "4", "5", "6", "7", "8", "9"}

\* a JSON number at index i: -?(0|[1-9]\d*)(\.\d+)?; its integer part runs
\* from a to b - 1, the number ends before c
NumberTo(s, i, c) == Parsed(JVal("num", SubSeq(s, i, c - 1), <<>>), c)

NumberFraction(s, i, a, b) ==
    IF b = a THEN NoParse
    ELSE IF b + 1 <= Len(s) /\ s[b] = "." /\ s[b + 1] \in JsonDigits
    THEN NumberTo(s, i, SkipRun(s, JsonDigits, b + 1))
    ELSE NumberTo(s, i, b)

NumberInteger(s, i, a) ==
    IF a <= Len(s) /\ s[a] = "0" THEN NumberFraction(s, i, a, a + 1)
    ELSE NumberFraction(s, i, a, SkipRun(s, JsonDigits, a))

ParseNumber(s, i) == NumberInteger(s, i, IF s[i] = "-" THEN i + 1 ELSE i)

RECURSIVE ParseValue(_, _)
RECURSIVE ParseMembers(_, _, _)
RECURSIVE ParseElements(_, _, _)

\* after a member or an element that ends before index e: the closing
\* bracket, or a comma and the next one
MemberNext(s, e, kv) ==
    IF e > Len(s) THEN NoParse
    ELSE IF s[e] = "}" THEN Parsed(JVal("dict", <<>>, kv), e + 1)
    ELSE IF s[e] = "," THEN ParseMembers(s, e + 1, kv)
    ELSE NoParse

ElementNext(s, e, items) ==
    IF e > Len(s) THEN NoParse
    ELSE IF s[e] = "]" THEN Parsed(JVal("list", <<>>, items), e + 1)
    ELSE IF s[e] = "," THEN ParseElements(s, e + 1, items)
    ELSE NoParse

MemberEnd(s, key, val, kv) ==
    IF val.ok
    THEN MemberNext(s, SkipRun(s, JsonWhitespace, val.pos),
                    DictSet(kv, key.val.s, val.val))
    ELSE NoParse

MemberValue(s, key, colon, kv) ==
    IF colon <= Len(s) /\ s[colon] = ":"
    THEN MemberEnd(s, key, ParseValue(s, SkipRun(s, JsonWhitespace, colon + 1)),
                   kv)
    ELSE NoParse

MemberColon(s, key, kv) ==
    IF key.ok THEN MemberValue(s, key, SkipRun(s, JsonWhitespace, key.pos), kv)
    ELSE NoParse

MemberKey(s, k, kv) ==
    IF k <= Len(s) /\ s[k] = "\""
    THEN MemberColon(s, ParseStringFrom(s, k + 1, <<>>), kv)
    ELSE NoParse

\* the members of an object from index i on (after "{" or after ","); a
\* member is  string ws ":" ws value ws
ParseMembers(s, i, kv) == MemberKey(s, SkipRun(s, JsonWhitespace, i), kv)

ElementEnd(s, val, kv) ==
    IF val.ok
    THEN ElementNext(s, SkipRun(s, JsonWhitespace, val.pos),
                     Append(kv, <<Len(kv), val.val>>))
    ELSE NoParse

\* the elements of an array from index i on (after "[" or after ",")
ParseElements(s, i, kv) ==
    ElementEnd(s, ParseValue(s, SkipRun(s, JsonWhitespace, i)), kv)

\* after "{" at index i, k the index of the next lexeme that is no whitespace
ObjectFrom(s, i, k) ==
    IF k <= Len(s) /\ s[k] = "}" THEN Parsed(EmptyDict, k + 1)
    ELSE ParseMembers(s, i + 1, <<>>)

ArrayFrom(s, i, k) ==
    IF k <= Len(s) /\ s[k] = "]" THEN Parsed(JVal("list", <<>>, <<>>), k + 1)
    ELSE ParseElements(s, i + 1, <<>>)

\* a JSON value at index i
ParseValue(s, i) ==
    IF i > Len(s) THEN NoParse
    ELSE IF s[i] = "{" THEN ObjectFrom(s, i, SkipRun(s, JsonWhitespace, i + 1))
    ELSE IF s[i] = "[" THEN ArrayFrom(s, i, SkipRun(s, JsonWhitespace, i + 1))
    ELSE IF s[i] = "\"" THEN ParseStringFrom(s, i + 1, <<>>)
    ELSE IF s[i] \in JsonLiterals THEN Parsed(JVal("lit", <<s[i]>>, <<>>), i + 1)
    ELSE IF s[i] = "-" /\ i + 1 <= Len(s) /\ s[i + 1] = "Infinity"
    THEN Parsed(JVal("lit", <<"-", "Infinity">>, <<>>), i + 2)
    ELSE IF s[i] \in JsonDigits \cup {"-"} THEN ParseNumber(s, i)
    ELSE NoParse

\* the value r parsed from s, if nothing but whitespace follows it
WholeText(s, r) ==
    IF r.ok /\ SkipRun(s, JsonWhitespace, r.pos) = Len(s) + 1 THEN r ELSE NoParse

\* json.loads(s): ok is FALSE for a JSONDecodeError
JsonLoads(s) == WholeText(s, ParseValue(s, SkipRun(s, JsonWhitespace, 1)))

(***************************************************************************)
(* methods/qa_expand.py: parse_llm_json                                    *)
(***************************************************************************)
\* the lexeme of three backquotes
Fence == "fence3"

QuoteChars == {"\"", "'"}

\* the lexemes that are no word characters (\w)
NonWord ==
    JsonWhitespace \cup QuoteChars \cup
    {"{", "}", "[", "]", ":", ",", ".", "-", "*", "(", ")", "/", "?", Fence,
     Backslash, Bullet}

\* the least index >= i of s holding a lexeme of cs, or Len(s) + 1
RECURSIVE SkipUntil(_, _, _)
SkipUntil(s, cs, i) ==
    IF i > Len(s) THEN Len(s) + 1
    ELSE IF s[i] \in cs THEN i
    ELSE SkipUntil(s, cs, i + 1)

\* the index after the run of word characters that starts at index i
WordRunEnd(s, i) == SkipUntil(s, NonWord, i)

\* text.replace(a + b, r) for the two-lexeme text a b
RECURSIVE ReplacePair(_, _, _, _)
ReplacePair(s, a, b, r) ==
    IF s = <<>> THEN <<>>
    ELSE IF Len(s) >= 2 /\ s[1] = a /\ s[2] = b
    THEN <<r>> \o ReplacePair(SubSeq(s, 3, Len(s)), a, b, r)
    ELSE <<Head(s)>> \o ReplacePair(Tail(s), a, b, r)

\* text[first_newline + 1:] if first_newline != -1
DropFirstLine(text, first_newline) ==
    IF first_newline # 0 THEN SubSeq(text, first_newline + 1, Len(text))
    ELSE text

\* text[:-3] if text.endswith of the fence
DropClosingFence(text) ==
    IF text # <<>> /\ text[Len(text)] = Fence
    THEN SubSeq(text, 1, Len(text) - 1)
    ELSE text

\* the removal of the markdown code fence
Unfence(text) ==
    IF StartsWith(text, Fence)
    THEN Strip(DropClosingFence(DropFirstLine(text, IndexFrom(text, "\n", 1))))
    ELSE text

\* text.replace('\\"', '"').replace('\\n', '\n').replace('\\t', '\t')
Unescape(text) ==
    ReplacePair(ReplacePair(ReplacePair(text, Backslash, "\"", "\""),
                            Backslash, "n", "\n"),
                Backslash, "t", "\t")

IsClosing(s, j) == j <= Len(s) /\ s[j] \in {"}", "]"}

\* re.sub(r',(\s*[}\]])', r'\1', text)
RECURSIVE DropTrailingCommas(_, _)
DropTrailingCommas(s, i) ==
    IF i > Len(s) THEN <<>>
    ELSE (IF s[i] = "," /\ IsClosing(s, SkipRun(s, JsonWhitespace, i + 1))
          THEN <<>> ELSE <<s[i]>>)
         \o DropTrailingCommas(s, i + 1)

\* the number of occurrences of c in s
RECURSIVE Count(_, _)
Count(s, c) ==
    IF s = <<>> THEN 0
    ELSE (IF Head(s) = c THEN 1 ELSE 0) + Count(Tail(s), c)

CloseQuote(attempt) ==
    IF Count(attempt, "\"") % 2 = 1 THEN Append(attempt, "\"") ELSE attempt

CloseBrace(attempt) ==
    IF attempt # <<>> /\ attempt[Len(attempt)] = "}" THEN attempt
    ELSE Append(attempt, "}")

\* the attempt to close an incomplete JSON text
CloseAttempt(text) == CloseBrace(CloseQuote(RStripChars(text, Whitespace)))

\* a regex match: whether it matched, the two groups, the index after it
Matched(key, value, pos) ==
    [ok |-> TRUE, key |-> key, value |-> value, pos |-> pos]
NoMatch == [ok |-> FALSE, key |-> <<>>, value |-> <<>>, pos |-> 0]

\* ["\'](\w+)["\'] at index i: the key and the index after it
QuotedKeyTo(s, i, j) ==
    IF s[i] \in QuoteChars /\ j > i + 1 /\ j <= Len(s) /\ s[j] \in QuoteChars
    THEN Matched(SubSeq(s, i + 1, j - 1), <<>>, j + 1)
    ELSE NoMatch

QuotedKeyAt(s, i) == QuotedKeyTo(s, i, WordRunEnd(s, i + 1))

\* (\w+) at index i
BareKeyTo(s, i, j) ==
    IF j > i THEN Matched(SubSeq(s, i, j - 1), <<>>, j) ELSE NoMatch

BareKeyAt(s, i) == BareKeyTo(s, i, WordRunEnd(s, i))

\* \s*:\s*["\']([^"\']*)["\'] at index i, after key k: the colon is at c,
\* the opening quote at v, the closing quote at e
QuotedValueClose(s, k, v, e) ==
    IF e <= Len(s) THEN Matched(k, SubSeq(s, v + 1, e - 1), e + 1) ELSE NoMatch

QuotedValueOpen(s, k, v) ==
    IF v <= Len(s) /\ s[v] \in QuoteChars
    THEN QuotedValueClose(s, k, v, SkipUntil(s, QuoteChars, v + 1))
    ELSE NoMatch

QuotedValueColon(s, k, c) ==
    IF c <= Len(s) /\ s[c] = ":"
    THEN QuotedValueOpen(s, k, SkipRun(s, JsonWhitespace, c + 1))
    ELSE NoMatch

QuotedValueAt(s, i, k) == QuotedValueColon(s, k, SkipRun(s, JsonWhitespace, i))

\* \s*:\s*([^,}\]]+) at index i, after key k: the colon is at c, the value
\* runs from w to e - 1; when nothing but whitespace follows the colon, the
\* second \s* gives its last lexeme back to the group
BareValueTo(s, k, c, w, e) ==
    IF e > w THEN Matched(k, SubSeq(s, w, e - 1), e)
    ELSE IF w > c + 1 THEN Matched(k, SubSeq(s, w - 1, w - 1), w)
    ELSE NoMatch

BareValueRun(s, k, c, w) ==
    BareValueTo(s, k, c, w, SkipUntil(s, {",", "}", "]"}, w))

BareValueColon(s, k, c) ==
    IF c <= Len(s) /\ s[c] = ":"
    THEN BareValueRun(s, k, c, SkipRun(s, JsonWhitespace, c + 1))
    ELSE NoMatch

BareValueAt(s, i, k) == BareValueColon(s, k, SkipRun(s, JsonWhitespace, i))

\* the rest of pattern n after its key
ValueAfterKey(n, s, k) ==
    IF ~k.ok THEN NoMatch
    ELSE IF n = 3 THEN BareValueAt(s, k.pos, k.key)
    ELSE QuotedValueAt(s, k.pos, k.key)

\* the three patterns of the fallback, at index i
PatternAt(n, s, i) ==
    ValueAfterKey(n, s, IF n = 2 THEN BareKeyAt(s, i) ELSE QuotedKeyAt(s, i))

\* for key, value in re.findall(pattern n, s): if key and value:
\*     result[key] = value.strip()
RECURSIVE CollectPairs(_, _, _, _)
CollectMatch(n, s, i, kv, m) ==
    IF ~m.ok THEN CollectPairs(n, s, i + 1, kv)
    ELSE CollectPairs(n, s, m.pos,
             IF m.value # <<>> THEN DictSet(kv, m.key, JStr(Strip(m.value)))
             ELSE kv)

CollectPairs(n, s, i, kv) ==
    IF i > Len(s) THEN kv ELSE CollectMatch(n, s, i, kv, PatternAt(n, s, i))

\* the key-value pairs the regex fallback extracts
RegexPairs(text) ==
    CollectPairs(3, text, 1,
        CollectPairs(2, text, 1, CollectPairs(1, text, 1, <<>>)))

\* the first of the four parses that succeeds, or the regex fallback
FirstParsed(text, direct, cleaned, requoted, closed) ==
    IF direct.ok THEN direct.val
    ELSE IF cleaned.ok THEN cleaned.val
    ELSE IF requoted.ok THEN requoted.val
    ELSE IF closed.ok THEN closed.val
    ELSE JVal("dict", <<>>, RegexPairs(text))

\* parse_llm_json from the stripped, unfenced, unescaped text on
ParseCleaned(text) ==
    FirstParsed(text,
        JsonLoads(text),
        JsonLoads(DropTrailingCommas(text, 1)),
        JsonLoads(Replace(text, "'", "\"")),
        IF Contains(text, "{") THEN JsonLoads(CloseAttempt(text)) ELSE NoParse)

\* parse_llm_json
ParseLLMJson(text) ==
    IF IsBlank(text) THEN EmptyDict
    ELSE ParseCleaned(Unescape(Unfence(Strip(text))))

(***************************************************************************)
(* methods/qa_expand.py: QAExpand                                          *)
(***************************************************************************)
QAExpandQueryRepeats == 3

\* the lexemes of the model that start with the text 'question'
QuestionWords == {"question", "question1", "question2", "question3"}

\* bool(v) of a parsed value
Truthy(v) ==
    CASE v.t \in {"dict", "list"} -> v.kv # <<>>
      [] v.t = "str" -> v.s # <<>>
      [] v.t = "num" -> \E i \in 1..Len(v.s) : v.s[i] \notin {"0", "-", "."}
      [] v.t = "lit" -> v.s \notin {<<"null">>, <<"false">>}

\* str(v) of a parsed string, numeral in canonical form, or literal
PyStr(v) ==
    CASE v.t = "str" -> v.s
      [] v.t = "num" -> v.s
      [] v.t = "lit" /\ v.s = <<"true">> -> <<"True">>
      [] v.t = "lit" /\ v.s = <<"false">> -> <<"False">>
      [] v.t = "lit" /\ v.s = <<"null">> -> <<"None">>

\* a string as json.dumps writes it
RECURSIVE DumpChars(_)
DumpChars(s) ==
    IF s = <<>> THEN <<>>
    ELSE (CASE Head(s) = "\"" -> <<Backslash, "\"">>
            [] Head(s) = Backslash -> <<Backslash, Backslash>>
            [] Head(s) = "\n" -> <<Backslash, "n">>
            [] Head(s) = "\t" -> <<Backslash, "t">>
            [] Head(s) = "\r" -> <<Backslash, "r">>
            [] OTHER -> <<Head(s)>>)
         \o DumpChars(Tail(s))

DumpString(s) == <<"\"">> \o DumpChars(s) \o <<"\"">>

\* json.dumps of a parsed value
RECURSIVE JsonDumps(_)
RECURSIVE DumpItems(_, _)
DumpItems(kv, keyed) ==
    IF kv = <<>> THEN <<>>
    ELSE (IF keyed THEN DumpString(Head(kv)[1]) \o <<":", " ">> ELSE <<>>)
         \o JsonDumps(Head(kv)[2])
         \o (IF Len(kv) > 1 THEN <<",", " ">> ELSE <<>>)
         \o DumpItems(Tail(kv), keyed)
JsonDumps(v) ==
    CASE v.t = "dict" -> <<"{">> \o DumpItems(v.kv, TRUE) \o <<"}">>
      [] v.t = "list" -> <<"[">> \o DumpItems(v.kv, FALSE) \o <<"]">>
      [] v.t = "str" -> DumpString(v.s)
      [] v.t \in {"num", "lit"} -> v.s

\* re.sub(r'^[\d\.\-\*\)]+\s*', '', line): the run ends before index a
DropNumberingTo(line, a) ==
    IF a = 1 THEN line
    ELSE SubSeq(line, SkipRun(line, JsonWhitespace, a), Len(line))

DropNumbering(line) ==
    DropNumberingTo(line,
        SkipRun(line, JsonDigits \cup {".", "-", "*", ")"}, 1))

\* re.sub(r'^[Qq]\d+[\:\.]?\s*', '', line): the digits end before index a
DropQPrefixTo(line, a) ==
    IF line # <<>> /\ line[1] \in {"Q", "q"} /\ a > 2
    THEN SubSeq(line,
             SkipRun(line, JsonWhitespace,
                 IF a <= Len(line) /\ line[a] \in {":", "."} THEN a + 1 ELSE a),
             Len(line))
    ELSE line

DropQPrefix(line) == DropQPrefixTo(line, SkipRun(line, JsonDigits, 2))

\* if line: cleaned_lines.append(line)
KeepLine(line) == IF line # <<>> THEN <<line>> ELSE <<>>

RECURSIVE CleanedLines(_)
CleanedLines(lines) ==
    IF lines = <<>> THEN <<>>
    ELSE KeepLine(DropQPrefix(DropNumbering(Head(lines))))
         \o CleanedLines(Tail(lines))

\* k.startswith('question')
StartsWithQuestion(k) == k # <<>> /\ k[1] \in QuestionWords

\* whether the parsed sub-questions are used as they are
HasQuestionKeys(questions_dict) ==
    /\ Truthy(questions_dict)
    /\ \E i \in 1..Len(questions_dict.kv) :
          StartsWithQuestion(questions_dict.kv[i][1])

\* cleaned_lines[i - 1] if len(cleaned_lines) > i - 1 else ""
LineAt(cleaned_lines, i) ==
    IF Len(cleaned_lines) >= i THEN cleaned_lines[i] ELSE <<>>

QuestionsJsonOf(questions_dict, cleaned_lines) ==
    IF HasQuestionKeys(questions_dict) THEN JsonDumps(questions_dict)
    ELSE JsonDumps(JVal("dict", <<>>,
             << <<(<<"question1">>), JStr(LineAt(cleaned_lines, 1))>>,
                <<(<<"question2">>), JStr(LineAt(cleaned_lines, 2))>>,
                <<(<<"question3">>), JStr(LineAt(cleaned_lines, 3))>> >>))

\* questions_json of QAExpand.reformulate
QuestionsJson(subqs_raw) ==
    QuestionsJsonOf(ParseLLMJson(subqs_raw),
                    CleanedLines(StripNonEmpty(Split(subqs_raw, "\n"))))

\* the characters of the model in the order of their code points
CodePoints ==
    <<"\t", "\n", "\r", " ", "\"", "'", "(", ")", "*", ",", "-", ".", "/", "0",
      "1", "2", "3", "4", "5", "6", "7", "8", "9", ":", "?", "A", "B", "C", "D",
      "E", "F", "G", "H", "I", "J", "K", "L", "M", "N", "O", "P", "Q", "R", "S",
      "T", "U", "V", "W", "X", "Y", "Z", "[", "\\", "]", "a", "b", "c", "d", "e",
      "f", "g", "h", "i", "j", "k", "l", "m", "n", "o", "p", "q", "r", "s", "t",
      "u", "v", "w", "x", "y", "z", "{", "}">>

CodePoint(c) == CHOOSE i \in 1..Len(CodePoints) : CodePoints[i] = c

\* the characters of a lexeme
Spell(c) ==
    CASE c = "question" -> <<"q", "u", "e", "s", "t", "i", "o", "n">>
      [] c = "question1" -> <<"q", "u", "e", "s", "t", "i", "o", "n", "1">>
      [] c = "question2" -> <<"q", "u", "e", "s", "t", "i", "o", "n", "2">>
      [] c = "question3" -> <<"q", "u", "e", "s", "t", "i", "o", "n", "3">>
      [] c = "answer1" -> <<"a", "n", "s", "w", "e", "r", "1">>
      [] c = "answer2" -> <<"a", "n", "s", "w", "e", "r", "2">>
      [] c = "answer3" -> <<"a", "n", "s", "w", "e", "r", "3">>
      [] c = "null" -> <<"n", "u", "l", "l">>
      [] c = "true" -> <<"t", "r", "u", "e">>
      [] c = "false" -> <<"f", "a", "l", "s", "e">>
      [] c = "NaN" -> <<"N", "a", "N">>
      [] c = "Infinity" -> <<"I", "n", "f", "i", "n", "i", "t", "y">>
      [] c = "True" -> <<"T", "r", "u", "e">>
      [] c = "False" -> <<"F", "a", "l", "s", "e">>
      [] c = "None" -> <<"N", "o", "n", "e">>
      [] OTHER -> <<c>>

RECURSIVE SpellAll(_)
SpellAll(s) == IF s = <<>> THEN <<>> ELSE Spell(Head(s)) \o SpellAll(Tail(s))

\* a < b on strings given by their characters
RECURSIVE CharsLess(_, _)
CharsLess(a, b) ==
    IF b = <<>> THEN FALSE
    ELSE IF a = <<>> THEN TRUE
    ELSE IF Head(a) = Head(b) THEN CharsLess(Tail(a), Tail(b))
    ELSE CodePoint(Head(a)) < CodePoint(Head(b))

KeyLess(a, b) == CharsLess(SpellAll(a), SpellAll(b))

\* the index of the item of kv with the least key
LeastKey(kv) ==
    CHOOSE i \in 1..Len(kv) :
        \A j \in 1..Len(kv) : j # i => KeyLess(kv[i][1], kv[j][1])

RECURSIVE SortedItems(_)
SortedFrom(kv, least) ==
    <<kv[least]>>
    \o SortedItems(SubSeq(kv, 1, least - 1) \o SubSeq(kv, least + 1, Len(kv)))

\* sorted(d.items()): the keys of a dict are distinct
SortedItems(kv) == IF kv = <<>> THEN <<>> ELSE SortedFrom(kv, LeastKey(kv))

\* [str(v)] if v and str(v).strip() else []
AnswerValue(v) ==
    IF Truthy(v) /\ Strip(PyStr(v)) # <<>> THEN <<PyStr(v)>> ELSE <<>>

\* [str(v) for k, v in items if v and str(v).strip()]
RECURSIVE AnswerValues(_)
AnswerValues(items) ==
    IF items = <<>> THEN <<>>
    ELSE AnswerValue(Head(items)[2]) \o AnswerValues(Tail(items))

RefinedTextOf(refined_answers_json, refined_dict) ==
    IF Truthy(refined_dict)
    THEN JoinSp(AnswerValues(SortedItems(refined_dict.kv)))
    ELSE refined_answers_json

\* refined_text of QAExpand.reformulate
RefinedText(refined_answers_json) ==
    RefinedTextOf(refined_answers_json, ParseLLMJson(refined_answers_json))

\* whether a parsed value is truthy and no dict
IsNoDict(v) == Truthy(v) /\ v.t # "dict"

\* the AttributeError of .keys() / .items() on a parsed value that is truthy
\* and no dict
NotADict(answer) == IsNoDict(ParseLLMJson(answer))

QAExpandResultOf(q, subqs_raw, answers_json, refined_answers_json, refined_text) ==
    ReformulationResult(q.qid, q.text,
        QueryRepeatPlusGenerated(q.text, refined_text, QAExpandQueryRepeats),
        [subquestions_raw |-> subqs_raw,
         questions_json |-> QuestionsJson(subqs_raw),
         answers_json |-> answers_json,
         refined_answers_json |-> refined_answers_json,
         refined_text |-> refined_text,
         prompts_used |-> [subq |-> "qa_expand.subq.v1",
                           answer |-> "qa_expand.answer.v1",
                           refine |-> "qa_expand.refine.v1"]])

\* QAExpand.reformulate from the three answers on
QAExpandResult(p, q, subqs_raw, answers_json, refined_answers_json) ==
    QAExpandResultOf(q, subqs_raw, answers_json, refined_answers_json,
                     RefinedText(refined_answers_json))

(***************************************************************************)
(* PromptBank.render.  A template is the list of its (role, format string) *)
(* pairs in the key order of the catalog entry; the keyword arguments are  *)
(* a function from names to values.                                        *)
(***************************************************************************)
Formatted(s) == [err |-> "none", s |-> s]

FormatError(e) == [err |-> e, s |-> <<>>]

\* the text before what the rest of the format string gave
Before(s, rest) == IF rest.err # "none" THEN rest ELSE Formatted(s \o rest.s)

RECURSIVE FormatFrom(_, _, _)

\* a replacement field that renders an unbound name as the empty string
FormatFieldLenient(t, i, j, k, b) ==
    IF j = 0 \/ (k # 0 /\ k < j) THEN FormatError("ValueError")
    ELSE IF j = i + 1 THEN FormatError("IndexError")
    ELSE Before(IF j = i + 2 /\ t[i + 1] \in DOMAIN b
                THEN PyStr(b[t[i + 1]]) ELSE <<>>,
                FormatFrom(t, j + 1, b))

\* the replacement field whose opening brace is at i and closing brace at j,
\* the next opening brace at k
FormatField(t, i, j, k, b) ==
    IF j = 0 \/ (k # 0 /\ k < j) THEN FormatError("ValueError")
    ELSE IF j = i + 1 THEN FormatError("IndexError")
    ELSE IF j = i + 2 /\ t[i + 1] \in DOMAIN b
    THEN Before(PyStr(b[t[i + 1]]), FormatFrom(t, j + 1, b))
    ELSE FormatError("KeyError")

\* str.format(**b) from index i on: {{ and }} are braces, {name} is str(b[name])
FormatFrom(t, i, b) ==
    IF i > Len(t) THEN Formatted(<<>>)
    ELSE IF t[i] = "{"
    THEN IF i < Len(t) /\ t[i + 1] = "{"
         THEN Before(<<"{">>, FormatFrom(t, i + 2, b))
         ELSE FormatField(t, i, IndexFrom(t, "}", i + 1),
                          IndexFrom(t, "{", i + 1), b)
    ELSE IF t[i] = "}"
    THEN IF i < Len(t) /\ t[i + 1] = "}"
         THEN Before(<<"}">>, FormatFrom(t, i + 2, b))
         ELSE FormatError("ValueError")
    ELSE Before(<<t[i]>>, FormatFrom(t, i + 1, b))

\* template.format(**vars)
Format(t, b) == FormatFrom(t, 1, b)

\* role in spec.template
HasRole(tpl, role) == \E k \in 1..Len(tpl) : tpl[k][1] = role

\* spec.template.get(role, "")
RoleTemplate(tpl, role) ==
    IF HasRole(tpl, role)
    THEN tpl[CHOOSE k \in 1..Len(tpl) : tpl[k][1] = role][2]
    ELSE <<>>

Rendered(ms) == [err |-> "none", messages |-> ms]

RenderError(e) == [err |-> e, messages |-> <<>>]

\* the roles in the order of the catalog entry's keys
RoleOrderOfCatalog(tpl) == [k \in 1..Len(tpl) |-> tpl[k][1]]

\* the roles render looks for, in the order of its three if statements
RoleOrder(tpl) == <<"system", "user", "assistant">>

RECURSIVE RenderRoles(_, _, _, _)

\* the message of one role after the messages ms, then the roles left
RenderRole(tpl, roles, b, ms, content) ==
    IF content.err # "none" THEN RenderError(content.err)
    ELSE RenderRoles(tpl, Tail(roles), b,
             Append(ms, [role |-> Head(roles), content |-> content.s]))

\* the if statements of render for the roles left
RenderRoles(tpl, roles, b, ms) ==
    IF roles = <<>> THEN Rendered(ms)
    ELSE IF HasRole(tpl, Head(roles))
    THEN RenderRole(tpl, roles, b, ms,
             Format(RoleTemplate(tpl, Head(roles)), b))
    ELSE RenderRoles(tpl, Tail(roles), b, ms)

\* PromptBank.render(prompt_id, **b) on the catalog by_id
Render(by_id, id, b) ==
    IF id \notin DOMAIN by_id THEN RenderError("KeyError")
    ELSE RenderRoles(by_id[id], RoleOrder(by_id[id]), b, <<>>)

(***************************************************************************)
(* State.                                                                  *)
(***************************************************************************)
VARIABLES
    \* one reformulator instance and the reformulate calls made on it
    method,        \* the class of the instance
    params,        \* cfg.params
    llm,           \* cfg.llm
    retries,       \* cfg.retries
    retrieval,     \* <<what _get_retrieval_params returned last>>, or <<>>
    fewshot_data,  \* self._msmarco_data / self._fewshot_data
    loads,         \* how many times the external loaders were invoked
    ncalls,        \* reformulate calls made so far
    q,             \* the QueryItem of the current call
    contexts,      \* the contexts argument of the current call
    pc,            \* where the calling thread is
    fut,           \* per chat request: none, pending, running, finished, failed
    raw,           \* per chat request: the text the LLM returned
    acc,           \* the list the calling thread accumulates the generations in
    order,         \* the requests in the order the calling thread consumed them
    sent,          \* the chat requests in the order they were issued
    result,        \* <<the ReformulationResult returned>>, or <<>>
    error          \* the exception that left reformulate, or "none"

reformVars ==
    <<method, params, llm, retries, retrieval, fewshot_data, loads, ncalls, q, contexts, pc,
      fut, raw, acc, order, sent, result, error>>

VARIABLES
    \* one reformulate_batch call
    queries,       \* the queries argument
    ctx_map,       \* the ctx_map argument
    out,           \* the list of results built so far
    passed,        \* the contexts argument handed to each reformulate call
    bpc            \* where the batch call is: idle, loop, done, raised

batchVars == <<queries, ctx_map, out, passed, bpc>>

VARIABLES
    \* the parse_llm_json calls
    json_text,     \* the argument of the last call
    json_value,    \* what the last call returned
    jpc            \* idle, or done after a call

jsonVars == <<json_text, json_value, jpc>>

VARIABLES
    \* the PromptBank.render calls
    prompt_id,     \* the prompt_id argument of the last call
    bound,         \* the keyword arguments of the last call
    messages,      \* the messages the last call returned
    render_error,  \* the exception that left the last call, or "none"
    rpc            \* idle, done or raised

promptVars == <<prompt_id, bound, messages, render_error, rpc>>

VARIABLES
    \* a PromptBank object
    yaml_items,    \* what yaml.safe_load returned for the catalog file
    by_id,         \* self._by_id, the entries in insertion order
    listed,        \* what the last list() call returned, or None
    got_meta       \* how the last get_meta call ended, or None

bankVars == <<yaml_items, by_id, listed, got_meta>>

VARIABLES
    \* the method registry
    METHODS,       \* the module-level dict: name -> class
    reg_log,       \* the register_method(name)(cls) calls so far, in order
    deco_returned  \* what the last decorator call returned, or None

registryVars == <<METHODS, reg_log, deco_returned>>

VARIABLES
    \* a run_method or create_reformulator call
    entry,         \* none, run_method or create_reformulator
    method_name,   \* the method_name argument
    setup_pc,      \* the statement the call is at, returned or raised
    setup_error    \* the exception that left the call, or "none"

setupVars == <<entry, method_name, setup_pc, setup_error>>

VARIABLES
    \* one call of a function that reads nothing but its arguments
    fn,            \* the function called
    fn_in,         \* its arguments
    fn_out,        \* what it returned or raised, None before the call
    fn_pc          \* idle or done

fnVars == <<fn, fn_in, fn_out, fn_pc>>

\* the variables of the objects next to the reformulators
restVars == <<bankVars, registryVars, setupVars, fnVars>>

vars == <<reformVars, batchVars, jsonVars, promptVars, restVars>>

\* the variables the reformulate actions leave alone
notReform == <<batchVars, jsonVars, promptVars, restVars>>

\* the variables neither reformulate nor reformulate_batch changes
notBatch == <<jsonVars, promptVars, restVars>>

\* the variables of reformulators, parse_llm_json and the one-shot render
coreVars == <<reformVars, batchVars, jsonVars, promptVars>>

\* the variables that only the batch call changes, before it starts
BatchIdle ==
    /\ queries = <<>>
    /\ ctx_map = NoneVal
    /\ out = <<>>
    /\ passed = <<>>
    /\ bpc = "idle"

\* no parse_llm_json call yet
JsonIdle ==
    /\ json_text = <<>>
    /\ json_value = EmptyDict
    /\ jpc = "idle"

\* no PromptBank object under observation
BankIdle ==
    /\ yaml_items = <<>>
    /\ by_id = <<>>
    /\ listed = NoneVal
    /\ got_meta = NoneVal

\* the registry module is not imported
RegistryIdle ==
    /\ METHODS = EmptyKwargs
    /\ reg_log = <<>>
    /\ deco_returned = NoneVal

\* neither run_method nor create_reformulator was called
SetupIdle ==
    /\ entry = "none"
    /\ method_name = ""
    /\ setup_pc = "idle"
    /\ setup_error = "none"

\* no function call under observation
FnIdle ==
    /\ fn = "none"
    /\ fn_in = <<>>
    /\ fn_out = NoneVal
    /\ fn_pc = "idle"

\* none of the objects next to the reformulators is in use
RestIdle == BankIdle /\ RegistryIdle /\ SetupIdle /\ FnIdle

\* no render call yet
NoRenderCall ==
    /\ prompt_id = ""
    /\ bound = EmptyKwargs
    /\ messages = <<>>
    /\ render_error = "none"
    /\ rpc = "idle"

PromptIdle == NoRenderCall /\ RestIdle

(***************************************************************************)
(* The inputs of the model.                                                *)
(***************************************************************************)
\* the number of reformulate calls made on one instance
MaxCalls == 2

Methods ==
    {"genqr", "genqr_ensemble", "query2e", "query2doc", "mugi", "lamer", "csqe",
     "qa_expand"}

Queries == {QueryItem("q1", <<"Q", "r">>), QueryItem("q2", <<>>)}

Passages == <<(<<"P", "a">>), (<<"b">>)>>

ContextArgs(m) ==
    IF m \in {"lamer", "csqe"}
    THEN {NoneVal, Some(<<>>), Some(SubSeq(Passages, 1, 1)), Some(Passages)}
    ELSE {NoneVal}

DefaultParams ==
    [n |-> 1, parallel |-> FALSE, mode |-> "zs", fewshot |-> FALSE,
     retrieval_k |-> 10, adaptive_times |-> 6, max_keywords |-> 20]

RetrievalConfigs ==
    { EmptyKwargs,
      [index |-> "idx"],
      [index |-> ""],
      [index |-> "idx", impact |-> TRUE, k1 |-> 1, b |-> 1, rm3 |-> TRUE,
       rocchio |-> TRUE, rocchio_use_negative |-> TRUE, answer_key |-> "text",
       threads |-> 4],
      [index |-> "idx", k1 |-> 1, rocchio |-> TRUE],
      [searcher |-> "wrapper", index |-> "idx"],
      [searcher_type |-> "pyserini", index |-> "idx"],
      [searcher_type |-> "lucene", searcher_kwargs |-> EmptyKwargs,
       index |-> "idx"],
      [searcher_type |-> "pyserini", searcher_kwargs |-> [index |-> "other"],
       index |-> "idx"],
      [searcher_type |-> "pyserini", searcher_kwargs |-> [k1 |-> 1]] }

ParamsOf(m) ==
    CASE m = "genqr" ->
           {[DefaultParams EXCEPT !.n = n] : n \in 1..MaxGen}
      [] m = "genqr_ensemble" ->
           {[DefaultParams EXCEPT !.n = n, !.parallel = par] :
               n \in 1..MaxGen, par \in BOOLEAN}
      [] m = "mugi" ->
           {[DefaultParams EXCEPT !.n = x[1], !.parallel = x[2],
                                  !.mode = x[3], !.adaptive_times = x[4]] :
               x \in (1..MaxGen) \X BOOLEAN \X {"zs", "fs", "bad"} \X {1, 6}}
      [] m \in {"lamer", "csqe"} ->
           {[DefaultParams EXCEPT !.n = n, !.retrieval_k = k] :
               n \in 1..MaxGen, k \in {1, 10}}
           \cup {DefaultParams @@ r : r \in RetrievalConfigs}
      [] m = "query2doc" ->
           {[DefaultParams EXCEPT !.mode = mode, !.fewshot = fs] :
               mode \in {"zs", "cot", "fs", "fewshot"}, fs \in BOOLEAN}
      [] m = "query2e" ->
           {[DefaultParams EXCEPT !.mode = x[1], !.fewshot = x[2],
                                  !.max_keywords = x[3]] :
               x \in {"zs", "fs", "bad"} \X BOOLEAN \X {1, 20}}
      [] OTHER -> {DefaultParams}

\* what the LLM may answer
KeywordOutputs ==
    { <<"a", ",", " ", "b">>, <<"-", " ", "c", "\n", "*", "d">>, <<>> }

DocOutputs == { <<"\"", "D", " ", "e", "\"">>, <<"f">>, <<" ">>, <<>> }

ChoiceOutputs ==
    { <<"\"", "S", "\"">>, <<"1", ".", " ", "t", "2", ":", "u">>, <<"v">> }

QAOutputs ==
    { <<"{", "\"", "question1", "\"", ":", " ", "\"", "a", "\"", "}">>,
      <<"{", "\"", "answer2", "\"", ":", "\"", "b", "\"", ",",
        "\"", "answer1", "\"", ":", "\"", "a", "\"">>,
      <<"1", ".", " ", "a", "\n", "Q", "2", ":", " ", "b">>,
      <<"[", "1", "]">>,
      <<"null">> }

Outputs(m, p) ==
    CASE m \in {"genqr", "genqr_ensemble", "query2e"} -> KeywordOutputs
      [] m = "qa_expand" -> QAOutputs
      [] m \in {"query2doc", "mugi", "lamer"} -> DocOutputs
      [] m = "csqe" -> [1..p.n -> ChoiceOutputs]
      [] OTHER -> DocOutputs

(***************************************************************************)
(* reformulate, per method: the requests, what is kept of an answer, and   *)
(* the result.                                                             *)
(***************************************************************************)
\* the number of chat requests of one reformulate call
NumCalls(m, p) ==
    CASE m \in {"query2doc", "query2e"} -> 1
      [] m = "csqe" -> 2
      [] m = "qa_expand" -> 3
      [] OTHER -> p.n

\* a class that runs its generations in a pool whatever the parallel flag says
IsParallelWhateverFlag(m, p) == m \in {"genqr_ensemble", "mugi"}

\* whether reformulate runs its generations on a thread pool
IsParallel(m, p) == m \in {"genqr_ensemble", "mugi"} /\ p.parallel

\* Query2Doc as the only method with an except branch
CatchesAllQuery2DocOnly(m) == m = "query2doc"

\* the methods whose reformulate wraps its body in try/except Exception
CatchesAll(m) == m \in {"query2doc", "query2e"}

Blob(p, ctx) == ContextsBlob(PromptCtxs(OrEmptyList(ctx), p.retrieval_k))

\* the i-th chat request of reformulate(qi, ctx), given the answers so far
Request(m, p, qi, ctx, i, got) ==
    CASE m = "genqr" -> Msg("genqr.keywords.v1", qi.text, <<>>, 1)
      [] m = "genqr_ensemble" -> Msg(VARIANT_IDS[i], qi.text, <<>>, 1)
      [] m = "mugi" -> Msg(MuGIPromptId(p.mode), qi.text, <<>>, 1)
      [] m = "lamer" -> Msg("lamer.msmarco.v1", qi.text, Blob(p, ctx), 1)
      [] m = "csqe" ->
           IF i = 1 THEN Msg("keqe.v1", qi.text, <<>>, p.n)
           ELSE Msg("csqe.v1", qi.text, Blob(p, ctx), p.n)
      [] m = "query2doc" ->
           Msg(Query2DocPromptId(p.mode), qi.text,
               IF p.mode \in FewShotModes THEN ExamplesText ELSE <<>>, 1)
      [] m = "query2e" ->
           IF p.mode \in FewShotModes
           THEN Msg("q2e.fs.v1", qi.text, ExamplesText, 1)
           ELSE Msg("q2e.zs.v1", qi.text, <<>>, 1)
      [] m = "qa_expand" ->
           CASE i = 1 -> Msg("qa_expand.subq.v1", qi.text, <<>>, 1)
             [] i = 2 -> [id |-> "qa_expand.answer.v1",
                          questions |-> QuestionsJson(got[1]), n |-> 1]
             [] i = 3 -> [id |-> "qa_expand.refine.v1", query |-> qi.text,
                          answers |-> got[2], n |-> 1]

\* what the calling thread adds to its list for one answer
Accumulate(m, got, answer) ==
    CASE m = "genqr_ensemble" -> got \o ParseKeywords(answer)
      [] m = "genqr" -> Append(got, CommaTerms(answer))
      [] m \in {"mugi", "lamer"} -> Append(got, CleanQuotes(answer))
      [] OTHER -> Append(got, answer)

\* the result reformulate returns once every answer is in
Assemble(m, p, qi, ctx, got, answers) ==
    CASE m = "genqr" -> GenQRResult(p, qi, got)
      [] m = "genqr_ensemble" -> EnsembleResult(p, qi, got, answers)
      [] m = "mugi" -> MuGIResult(p, qi, got)
      [] m = "lamer" -> LameRResult(p, qi, ctx, got)
      [] m = "csqe" -> CSQEResult(p, qi, ctx, got[1], got[2])
      [] m = "query2doc" -> Query2DocResult(p, qi, got[1])
      [] m = "query2e" -> Query2EResult(p, qi, got[1])
      [] m = "qa_expand" -> QAExpandResult(p, qi, got[1], got[2], got[3])

\* the exception reformulate raises while it handles the i-th answer, or
\* "none"
PostError(m, i, answer) ==
    IF m = "qa_expand" /\ i \in {1, 3} /\ NotADict(answer)
    THEN "AttributeError"
    ELSE "none"

\* dict.get(key, default)
Get(d, key, default) == IF key \in DOMAIN d THEN d[key] ELSE default

\* d[key] = val on a dict
Put(d, key, val) ==
    [k \in DOMAIN d \cup {key} |-> IF k = key THEN val ELSE d[k]]

\* whether _get_retrieval_params writes into cfg.params['searcher_kwargs']
AddsIndex(p) ==
    /\ "searcher" \notin DOMAIN p
    /\ "searcher_type" \in DOMAIN p
    /\ "index" \in DOMAIN p
    /\ "index" \notin DOMAIN Get(p, "searcher_kwargs", EmptyKwargs)

\* searcher_kwargs of the legacy format
LegacyKwargs(p) ==
    LET base == [index |-> p.index,
                 searcher_type |-> IF Get(p, "impact", FALSE) THEN "impact"
                                   ELSE "bm25",
                 answer_key |-> Get(p, "answer_key", "contents")]
        bm25 == IF "k1" \in DOMAIN p /\ "b" \in DOMAIN p
                THEN Put(Put(base, "k1", p.k1), "b", p.b) ELSE base
        rm3 == IF Get(p, "rm3", FALSE) THEN Put(bm25, "rm3", TRUE) ELSE bm25
        rocchio == IF Get(p, "rocchio", FALSE)
                   THEN Put(rm3, "rocchio", TRUE) ELSE rm3
    IN  IF Get(p, "rocchio", FALSE) /\ Get(p, "rocchio_use_negative", FALSE)
        THEN Put(rocchio, "rocchio_use_negative", TRUE)
        ELSE rocchio

\* what _get_retrieval_params returns
RetrievalParams(p) ==
    IF "searcher" \in DOMAIN p
    THEN Some([searcher |-> p.searcher,
               k |-> Get(p, "retrieval_k", 10),
               threads |-> Get(p, "threads", 16)])
    ELSE IF "searcher_type" \in DOMAIN p
    THEN LET searcher_kwargs == Get(p, "searcher_kwargs", EmptyKwargs)
         IN  Some([searcher_type |-> p.searcher_type,
                   searcher_kwargs |->
                       IF AddsIndex(p)
                       THEN Put(searcher_kwargs, "index", p.index)
                       ELSE searcher_kwargs,
                   k |-> Get(p, "retrieval_k", 10),
                   threads |-> Get(p, "threads", 16)])
    ELSE IF Get(p, "index", "") = "" THEN NoneVal
    ELSE Some([searcher_type |-> "pyserini",
               searcher_kwargs |-> LegacyKwargs(p),
               k |-> Get(p, "retrieval_k", 10),
               threads |-> Get(p, "threads", 16)])

\* cfg.params after _get_retrieval_params: searcher_kwargs is the dict of
\* cfg.params when the key is there, a new dict when it is not
ParamsAfterRetrieval(p) ==
    IF AddsIndex(p) /\ "searcher_kwargs" \in DOMAIN p
    THEN [p EXCEPT !.searcher_kwargs = Put(@, "index", p.index)]
    ELSE p

(***************************************************************************)
(* The reformulate call as a state machine.  The calling thread is idle,   *)
(* blocked in a chat request ("chat"), waiting in as_completed ("join"),   *)
(* leaving the with block of the executor after a failure ("unwind"),      *)
(* returned ("done") or left by an exception ("raised").                   *)
(***************************************************************************)
\* the chat requests one reformulate call can make
MaxSlots == Max(MaxGen, 3)

NoFut == [i \in 1..MaxSlots |-> "none"]
NoRaw == [i \in 1..MaxSlots |-> <<>>]

\* the default of MethodConfig.retries
DefaultRetries == 2

\* a reformulator of class m with cfg.params p and cfg.retries r, before its
\* first call
ConstructedWith(m, p, r) ==
    /\ method = m
    /\ params = p
    /\ llm = [model |-> "model", temperature |-> 8, max_tokens |-> 256]
    /\ retries = r
    /\ retrieval = <<>>
    /\ fewshot_data = None
    /\ loads = 0
    /\ ncalls = 0
    /\ q = QueryItem("", <<>>)
    /\ contexts = NoneVal
    /\ pc = "idle"
    /\ fut = NoFut
    /\ raw = NoRaw
    /\ acc = <<>>
    /\ order = <<>>
    /\ sent = <<>>
    /\ result = <<>>
    /\ error = "none"

\* a reformulator of class m with cfg.params p, before its first call
Constructed(m, p) == ConstructedWith(m, p, DefaultRetries)

Init ==
    /\ \E m \in Methods : \E p \in ParamsOf(m) : Constructed(m, p)
    /\ BatchIdle
    /\ JsonIdle
    /\ PromptIdle

CanCall == pc \in {"idle", "done", "raised"} /\ ncalls < MaxCalls

\* the caller's part of every entry into reformulate
Enter(qi, ctx) ==
    /\ CanCall
    /\ q' = qi
    /\ contexts' = ctx
    /\ ncalls' = ncalls + 1
    /\ raw' = NoRaw
    /\ acc' = <<>>
    /\ order' = <<>>
    /\ UNCHANGED <<method, params, llm, retries, retrieval>>

\* whether the mode of the configuration is one the method rejects
InvalidMode(m, p) ==
    /\ m \in {"mugi", "query2e"}
    /\ p.mode \notin {"fs", "fewshot", "zs", "zeroshot"}

\* the few-shot data are loaded on every call, cached or not
CacheMissAlways(data) == TRUE

\* _load_msmarco_data / _load_fewshot_data: whether the loaders are invoked
CacheMiss(data) == data = None

\* whether this call uses the few-shot data
NeedsLoad(m, p) ==
    m \in {"query2doc", "query2e"} /\ p.mode \in FewShotModes

\* MuGI.reformulate with an invalid mode: the ValueError leaves reformulate
InvalidModeCall(qi, ctx) ==
    /\ Enter(qi, ctx)
    /\ InvalidMode(method, params)
    /\ ~CatchesAll(method)
    /\ pc' = "raised"
    /\ error' = "ValueError"
    /\ result' = <<>>
    /\ fut' = NoFut
    /\ sent' = <<>>
    /\ UNCHANGED <<fewshot_data, loads>>

\* Query2Doc / Query2E: an exception before the chat request (the few-shot
\* data are not configured or do not load, the mode is invalid) is caught by
\* reformulate's except branch
FailsBeforeChatCall(qi, ctx) ==
    /\ Enter(qi, ctx)
    /\ CatchesAll(method)
    /\ \/ InvalidMode(method, params)
       \/ /\ NeedsLoad(method, params)
          /\ CacheMiss(fewshot_data)
    /\ pc' = "done"
    /\ error' = "none"
    /\ result' = <<FallbackResult(params, qi,
                     IF InvalidMode(method, params) THEN "Invalid mode"
                     ELSE IF params.fewshot THEN "Failed to load"
                     ELSE "Few-shot mode requires paths")>>
    /\ fut' = NoFut
    /\ sent' = <<>>
    /\ loads' = IF ~InvalidMode(method, params) /\ params.fewshot
                THEN loads + 1
                ELSE loads
    /\ UNCHANGED fewshot_data

\* reformulate up to its first chat request, in which the thread blocks
SequentialCall(qi, ctx) ==
    /\ Enter(qi, ctx)
    /\ ~InvalidMode(method, params)
    /\ ~IsParallel(method, params)
    /\ NeedsLoad(method, params) /\ CacheMiss(fewshot_data) => params.fewshot
    /\ fewshot_data' =
           IF NeedsLoad(method, params) THEN "loaded" ELSE fewshot_data
    /\ loads' = IF NeedsLoad(method, params) /\ CacheMiss(fewshot_data)
                THEN loads + 1
                ELSE loads
    /\ pc' = "chat"
    /\ error' = "none"
    /\ result' = <<>>
    /\ fut' = [NoFut EXCEPT ![1] = "running"]
    /\ sent' = <<Request(method, params, qi, ctx, 1, <<>>)>>

\* reformulate up to as_completed: every generation is submitted to the pool
ParallelCall(qi, ctx) ==
    /\ Enter(qi, ctx)
    /\ ~InvalidMode(method, params)
    /\ IsParallel(method, params)
    /\ pc' = "join"
    /\ error' = "none"
    /\ result' = <<>>
    /\ fut' = [i \in 1..MaxSlots |->
                  IF i <= NumCalls(method, params) THEN "pending" ELSE "none"]
    /\ sent' = <<>>
    /\ UNCHANGED <<fewshot_data, loads>>

\* reformulate called directly on the instance
CallInvalidMode ==
    /\ bpc = "idle"
    /\ \E qi \in Queries, ctx \in ContextArgs(method) : InvalidModeCall(qi, ctx)
    /\ UNCHANGED notReform

CallFailsBeforeChat ==
    /\ bpc = "idle"
    /\ \E qi \in Queries, ctx \in ContextArgs(method) :
           FailsBeforeChatCall(qi, ctx)
    /\ UNCHANGED notReform

CallSequential ==
    /\ bpc = "idle"
    /\ \E qi \in Queries, ctx \in ContextArgs(method) : SequentialCall(qi, ctx)
    /\ UNCHANGED notReform

CallParallel ==
    /\ bpc = "idle"
    /\ \E qi \in Queries, ctx \in ContextArgs(method) : ParallelCall(qi, ctx)
    /\ UNCHANGED notReform

\* the request the calling thread is blocked in
Current == Len(order) + 1

\* the chat request returns `answer`: the thread keeps it and goes on to the next
\* request, or builds the result and returns
ChatReturn ==
    /\ pc = "chat"
    /\ \E answer \in Outputs(method, params) :
        LET i == Current
            got == Accumulate(method, acc, answer)
            answers == [raw EXCEPT ![i] = answer]
        IN  /\ raw' = answers
            /\ acc' = got
            /\ order' = Append(order, i)
            /\ IF PostError(method, i, answer) # "none"
               THEN /\ fut' = [fut EXCEPT ![i] = "finished"]
                    /\ error' = PostError(method, i, answer)
                    /\ pc' = "raised"
                    /\ UNCHANGED <<sent, result>>
               ELSE IF i < NumCalls(method, params)
               THEN /\ fut' = [fut EXCEPT ![i] = "finished", ![i + 1] = "running"]
                    /\ sent' = Append(sent,
                           Request(method, params, q, contexts, i + 1, got))
                    /\ UNCHANGED <<pc, result, error>>
               ELSE /\ fut' = [fut EXCEPT ![i] = "finished"]
                    /\ result' = <<Assemble(method, params, q, contexts, got,
                                            answers)>>
                    /\ pc' = "done"
                    /\ UNCHANGED <<sent, error>>
    /\ UNCHANGED <<method, params, llm, retries, retrieval, fewshot_data, loads, ncalls, q,
                   contexts, notReform>>

\* the chat request raises and is issued again while cfg.retries allows it
ChatRaiseRetrying ==
    /\ pc = "chat"
    /\ IF Len(sent) < NumCalls(method, params) + retries
       THEN /\ sent' = Append(sent, sent[Len(sent)])
            /\ UNCHANGED <<fut, result, pc, error>>
       ELSE /\ fut' = [fut EXCEPT ![Current] = "failed"]
            /\ IF CatchesAll(method)
               THEN /\ result' = <<FallbackResult(params, q, "LLMError")>>
                    /\ pc' = "done"
                    /\ UNCHANGED error
               ELSE /\ error' = "LLMError"
                    /\ pc' = "raised"
                    /\ UNCHANGED result
            /\ UNCHANGED sent
    /\ UNCHANGED <<method, params, llm, retries, retrieval, fewshot_data, loads, ncalls, q, contexts, raw,
                   acc, order, notReform>>

\* the chat request raises: Query2Doc and Query2E catch it and return the
\* original query, every other method lets it leave reformulate
ChatRaise ==
    /\ pc = "chat"
    /\ fut' = [fut EXCEPT ![Current] = "failed"]
    /\ IF CatchesAll(method)
       THEN /\ result' = <<FallbackResult(params, q, "LLMError")>>
            /\ pc' = "done"
            /\ UNCHANGED error
       ELSE /\ error' = "LLMError"
            /\ pc' = "raised"
            /\ UNCHANGED result
    /\ UNCHANGED <<method, params, llm, retries, retrieval, fewshot_data, loads, ncalls, q, contexts, raw, acc,
                   order, sent, notReform>>

\* a pool thread starts generation i: it renders the prompt and calls chat
TaskStart(i) ==
    /\ fut[i] = "pending"
    /\ fut' = [fut EXCEPT ![i] = "running"]
    /\ sent' = Append(sent, Request(method, params, q, contexts, i, <<>>))
    /\ UNCHANGED <<method, params, llm, retries, retrieval, fewshot_data, loads, ncalls, q, contexts, pc, raw,
                   acc, order, result, error, notReform>>

\* generation i completes with `answer`
TaskReturn(i) ==
    /\ pc \in {"join", "unwind"}
    /\ fut[i] = "running"
    /\ \E answer \in Outputs(method, params) :
        raw' = [raw EXCEPT ![i] = answer]
    /\ fut' = [fut EXCEPT ![i] = "finished"]
    /\ UNCHANGED <<method, params, llm, retries, retrieval, fewshot_data, loads, ncalls, q, contexts, pc, acc,
                   order, sent, result, error, notReform>>

\* the chat request of generation i raises
TaskRaise(i) ==
    /\ pc \in {"join", "unwind"}
    /\ fut[i] = "running"
    /\ fut' = [fut EXCEPT ![i] = "failed"]
    /\ UNCHANGED <<method, params, llm, retries, retrieval, fewshot_data, loads, ncalls, q, contexts, pc, raw,
                   acc, order, sent, result, error, notReform>>

InOrder(i) == \E k \in 1..Len(order) : order[k] = i

\* as_completed hands the calling thread a completed future it has not seen:
\* the thread adds its generation to the list, and builds the result after
\* the last one
Collect(i) ==
    /\ pc = "join"
    /\ fut[i] = "finished"
    /\ ~InOrder(i)
    /\ LET got == Accumulate(method, acc, raw[i])
       IN  /\ acc' = got
           /\ order' = Append(order, i)
           /\ IF Len(order) + 1 = NumCalls(method, params)
              THEN /\ result' = <<Assemble(method, params, q, contexts, got, raw)>>
                   /\ pc' = "done"
              ELSE UNCHANGED <<pc, result>>
    /\ UNCHANGED <<method, params, llm, retries, retrieval, fewshot_data, loads, ncalls, q, contexts, fut, raw,
                   sent, error, notReform>>

\* as_completed hands over a failed future: future.result() raises, and the
\* thread leaves the with block, which waits for the pool
CollectFailed(i) ==
    /\ pc = "join"
    /\ fut[i] = "failed"
    /\ pc' = "unwind"
    /\ error' = "LLMError"
    /\ UNCHANGED <<method, params, llm, retries, retrieval, fewshot_data, loads, ncalls, q, contexts, fut, raw,
                   acc, order, sent, result, notReform>>

\* the exception leaves reformulate as soon as future.result() has raised
UnwindAtOnce ==
    /\ pc = "unwind"
    /\ pc' = "raised"
    /\ UNCHANGED <<method, params, llm, retries, retrieval, fewshot_data, loads, ncalls, q, contexts, fut, raw,
                   acc, order, sent, result, error, notReform>>

\* executor.shutdown(wait=True) returns: the exception leaves reformulate
Unwind ==
    /\ pc = "unwind"
    /\ \A i \in 1..MaxSlots : fut[i] \in {"none", "finished", "failed"}
    /\ pc' = "raised"
    /\ UNCHANGED <<method, params, llm, retries, retrieval, fewshot_data, loads, ncalls, q, contexts, fut, raw,
                   acc, order, sent, result, error, notReform>>

\* LameR / CSQE: _get_retrieval_params, called between reformulate calls
GetRetrievalParams ==
    /\ method \in {"lamer", "csqe"}
    /\ pc \in {"idle", "done", "raised"}
    /\ retrieval' = <<RetrievalParams(params)>>
    /\ params' = ParamsAfterRetrieval(params)
    /\ UNCHANGED <<method, llm, retries, fewshot_data, loads, ncalls, q, contexts, pc, fut, raw,
                   acc, order, sent, result, error, notReform>>

Next ==
    \/ GetRetrievalParams
    \/ CallInvalidMode
    \/ CallFailsBeforeChat
    \/ CallSequential
    \/ CallParallel
    \/ ChatReturn
    \/ ChatRaise
    \/ \E i \in 1..MaxSlots : TaskStart(i)
    \/ \E i \in 1..MaxSlots : TaskReturn(i)
    \/ \E i \in 1..MaxSlots : TaskRaise(i)
    \/ \E i \in 1..MaxSlots : Collect(i)
    \/ \E i \in 1..MaxSlots : CollectFailed(i)
    \/ Unwind

Spec == Init /\ [][Next]_vars

(***************************************************************************)
(* BaseReformulator.reformulate_batch: the loop over the queries, each      *)
(* iteration a reformulate call on the same instance.                      *)
(***************************************************************************)
\* the query lists given to reformulate_batch: every list of at most MaxCalls
\* queries, the empty list and lists with a repeated qid included
BatchQueries == Queries \cup {QueryItem("q1", <<"z">>)}

Batches == UNION {[1..k -> BatchQueries] : k \in 0..MaxCalls}

\* the ctx_map arguments: None, the empty dict, dicts missing a qid
ContextMaps ==
    { NoneVal,
      Some(EmptyKwargs),
      Some([q1 |-> Passages]),
      Some([q2 |-> SubSeq(Passages, 1, 1)]) }

\* the classes of the batch runs: every class inherits the loop unchanged;
\* QAExpand, whose call is three chat requests deep, is left to Spec
BatchMethods == Methods \ {"qa_expand"}

\* the configurations of the batch runs: one generation per query
BatchParamsOf(m) ==
    {p \in ParamsOf(m) : p.n = 1 /\ DOMAIN p = DOMAIN DefaultParams}

\* (ctx_map or {}).get(qid) with a context for every absent qid
CtxForEmptyDefault(cm, qid) ==
    IF cm.isNone \/ qid \notin DOMAIN cm.v THEN Some(<<>>) ELSE Some(cm.v[qid])

\* (ctx_map or {}).get(qid)
CtxFor(cm, qid) ==
    IF cm.isNone
    THEN NoneVal
    ELSE IF qid \in DOMAIN cm.v THEN Some(cm.v[qid]) ELSE NoneVal

InitBatch ==
    /\ \E m \in BatchMethods : \E p \in BatchParamsOf(m) : Constructed(m, p)
    /\ BatchIdle
    /\ JsonIdle
    /\ PromptIdle

\* reformulate_batch is called: out = []
BatchCall ==
    /\ bpc = "idle"
    /\ pc = "idle"
    /\ queries' \in Batches
    /\ ctx_map' \in ContextMaps
    /\ out' = <<>>
    /\ passed' = <<>>
    /\ bpc' = "loop"
    /\ UNCHANGED <<reformVars, notBatch>>

\* the next query of the loop
NextQuery == queries[Len(out) + 1]

\* one iteration up to the point where reformulate blocks, returns or raises
BatchIterate ==
    /\ bpc = "loop"
    /\ Len(out) < Len(queries)
    /\ \/ InvalidModeCall(NextQuery, CtxFor(ctx_map, NextQuery.qid))
       \/ FailsBeforeChatCall(NextQuery, CtxFor(ctx_map, NextQuery.qid))
       \/ SequentialCall(NextQuery, CtxFor(ctx_map, NextQuery.qid))
       \/ ParallelCall(NextQuery, CtxFor(ctx_map, NextQuery.qid))
    /\ passed' = Append(passed, CtxFor(ctx_map, NextQuery.qid))
    /\ bpc' = "calling"
    /\ UNCHANGED <<queries, ctx_map, out, notBatch>>

\* reformulate returned: out.append(...)
BatchAppend ==
    /\ bpc = "calling"
    /\ pc = "done"
    /\ out' = Append(out, result[1])
    /\ bpc' = "loop"
    /\ UNCHANGED <<reformVars, queries, ctx_map, passed, notBatch>>

\* reformulate raised: the exception leaves reformulate_batch
BatchRaise ==
    /\ bpc = "calling"
    /\ pc = "raised"
    /\ bpc' = "raised"
    /\ UNCHANGED <<reformVars, queries, ctx_map, out, passed, notBatch>>

\* the loop is over: return out
BatchReturn ==
    /\ bpc = "loop"
    /\ Len(out) = Len(queries)
    /\ bpc' = "done"
    /\ UNCHANGED <<reformVars, queries, ctx_map, out, passed, notBatch>>

NextBatch ==
    \/ BatchCall
    \/ BatchIterate
    \/ BatchAppend
    \/ BatchRaise
    \/ BatchReturn
    \/ ChatReturn
    \/ ChatRaise
    \/ \E i \in 1..MaxSlots : TaskStart(i)
    \/ \E i \in 1..MaxSlots : TaskReturn(i)
    \/ \E i \in 1..MaxSlots : TaskRaise(i)
    \/ \E i \in 1..MaxSlots : Collect(i)
    \/ \E i \in 1..MaxSlots : CollectFailed(i)
    \/ Unwind

SpecBatch == InitBatch /\ [][NextBatch]_vars

(***************************************************************************)
(* parse_llm_json, called on the texts an LLM may return.                  *)
(***************************************************************************)
\* the longest text of the enumerated inputs
MaxJsonLen == 3

JsonAlphabet == {"{", "}", "[", "]", "\"", ":", ",", "k", "1", "null"}

\* every text of at most MaxJsonLen lexemes, the answers of the QAExpand runs,
\* and fenced, single-quoted, truncated and key: value texts
JsonTexts ==
    UNION {[1..n -> JsonAlphabet] : n \in 0..MaxJsonLen}
    \cup QAOutputs
    \cup { <<Fence, "json", "\n", "{", "\"", "k", "\"", ":", " ", "1", "}",
            "\n", Fence>>,
          <<"{", "'", "k", "'", ":", " ", "'", "v", "'", "}">>,
          <<"{", "\"", "k", "\"", ":", " ", "\"", "v", "\"", ",", "}">>,
          <<"k", ":", " ", "v", "\n", "j", ":", " ", "1">>,
          <<"\"", "k", "\"">>,
          <<"true">>,
          <<"s", "o", "r", "r", "y">> }

\* the text the LLM returned is any of JsonTexts
InitJson ==
    /\ Constructed("qa_expand", DefaultParams)
    /\ BatchIdle
    /\ json_text \in JsonTexts
    /\ json_value = EmptyDict
    /\ jpc = "idle"
    /\ PromptIdle

\* parse_llm_json(json_text)
ParseLLMJsonCall ==
    /\ jpc = "idle"
    /\ json_value' = ParseLLMJson(json_text)
    /\ jpc' = "done"
    /\ UNCHANGED <<json_text, reformVars, batchVars, promptVars, restVars>>

NextJson == ParseLLMJsonCall

SpecJson == InitJson /\ [][NextJson]_vars

(***************************************************************************)
(* PromptBank.render on a catalog.                                         *)
(***************************************************************************)
\* the catalog entries: prompt id -> template, the keys in catalog order
Catalog ==
    [ hello |-> << <<"user", <<"Hello", " ", "{", "name", "}">> >> >>,
      full |-> << <<"system", <<"S">> >>,
                  <<"user", <<"{", "query", "}", "?">> >>,
                  <<"assistant", <<"A", " ", "{", "n", "}">> >> >>,
      reversed |-> << <<"assistant", <<"A">> >>,
                      <<"user", <<"{", "n", "}", " ", "{", "name", "}">> >>,
                      <<"system", <<"S", "{", "query", "}">> >> >>,
      braces |-> << <<"system", <<"{", "{", "x", "}", "}">> >> >>,
      tool |-> << <<"tool", <<"{", "zz", "}">> >>, <<"user", <<"U">> >> >>,
      assistant |-> << <<"assistant", <<"{", "name", "}">> >>,
                       <<"system", <<>> >> >>,
      empty |-> <<>>,
      stray |-> << <<"system", <<"S">> >>, <<"user", <<"}", "x">> >> >>,
      open |-> << <<"user", <<"{", "name">> >> >>,
      positional |-> << <<"user", <<"{", "}">> >> >> ]

PromptIds == DOMAIN Catalog \cup {"absent"}

BoundNames == {"name", "query", "n"}

BoundValues ==
    { JStr(<<"Ada">>), JStr(<<"{", "query", "}">>),
      JVal("num", <<"1", "2">>, <<>>) }

\* the keyword arguments of a render call
Bindings == UNION {[D -> BoundValues] : D \in SUBSET BoundNames}

\* the arguments of the render call are any prompt id and keyword arguments
InitPrompt ==
    /\ Constructed("genqr", DefaultParams)
    /\ BatchIdle
    /\ JsonIdle
    /\ prompt_id \in PromptIds
    /\ bound \in Bindings
    /\ messages = <<>>
    /\ render_error = "none"
    /\ rpc = "idle"
    /\ RestIdle

\* render returns r.messages or raises r.err
RenderOutcome(r) ==
    /\ messages' = r.messages
    /\ render_error' = r.err
    /\ rpc' = IF r.err = "none" THEN "done" ELSE "raised"

\* PromptBank.render(prompt_id, **bound)
RenderCall ==
    /\ rpc = "idle"
    /\ RenderOutcome(Render(Catalog, prompt_id, bound))
    /\ UNCHANGED <<prompt_id, bound, reformVars, batchVars, jsonVars, restVars>>

NextPrompt == RenderCall

SpecPrompt == InitPrompt /\ [][NextPrompt]_vars

(***************************************************************************)
(* A PromptBank object: __init__, then list, get_meta and render calls.    *)
(***************************************************************************)
\* the longest catalog file, in entries
MaxItems == 2

\* the keys of a catalog entry that become fields of PromptSpec
SpecKeys == {"id", "method_family", "version", "template"}

\* x.get(key, default)
GetOr(x, key, default) == IF key \in DOMAIN x THEN x[key] ELSE default

\* the PromptSpec __init__ builds from the catalog entry x
PromptSpec(x) ==
    [ id |-> x["id"],
      method_family |-> GetOr(x, "method_family", ""),
      version |-> GetOr(x, "version", 1),
      template |-> x["template"],
      meta |-> [k \in DOMAIN x \ SpecKeys |-> x[k]] ]

\* every entry kept under its own position, whatever its id
SetSpecAppending(d, ps) == Append(d, ps)

\* self._by_id[x["id"]] = PromptSpec(...): a dict keeps the position of a key
\* it already holds and replaces its value
SetSpec(d, ps) ==
    IF \E k \in 1..Len(d) : d[k].id = ps.id
    THEN [k \in 1..Len(d) |-> IF d[k].id = ps.id THEN ps ELSE d[k]]
    ELSE Append(d, ps)

\* the loop of __init__ over the entries from index i on
RECURSIVE LoadFrom(_, _, _)
LoadFrom(xs, i, d) ==
    IF i > Len(xs) THEN d
    ELSE LoadFrom(xs, i + 1, SetSpec(d, PromptSpec(xs[i])))

\* PromptBank.__init__: self._by_id after the load
PromptBankInit(xs) == LoadFrom(xs, 1, <<>>)

\* PromptBank.list()
List(d) == [k \in 1..Len(d) |-> d[k].id]

\* PromptBank.get_meta(prompt_id)
GetMeta(d, id) ==
    IF \E k \in 1..Len(d) : d[k].id = id
    THEN [err |-> "none", meta |-> d[CHOOSE k \in 1..Len(d) : d[k].id = id].meta]
    ELSE [err |-> "KeyError", meta |-> NoneVal]

\* prompt id -> template, as render reads self._by_id
TemplatesOf(d) ==
    [id \in {d[k].id : k \in 1..Len(d)} |->
        d[CHOOSE k \in 1..Len(d) : d[k].id = id].template]

\* the entries a catalog file is made of: two share the id "a"
CatalogItems ==
    { ("id" :> "a") @@ ("template" :> Catalog["hello"]) @@ ("notes" :> "first"),
      ("id" :> "a") @@ ("template" :> Catalog["stray"]) @@ ("version" :> 2)
          @@ ("method_family" :> "fam") @@ ("notes" :> "second")
          @@ ("authors" :> "x"),
      ("id" :> "b") @@ ("template" :> Catalog["full"]),
      ("id" :> "c") @@ ("template" :> Catalog["tool"]) @@ ("notes" :> "third") }

\* safe_load(...) or []: the empty file gives no entry
CatalogFiles == UNION {[1..k -> CatalogItems] : k \in 0..MaxItems}

BankIds == {"a", "b", "c", "absent"}

\* the keyword arguments of the render calls on the bank
BankBindings == UNION {[D -> {JStr(<<"Ada">>)}] : D \in SUBSET {"name", "query"}}

\* the bank after PromptBank(path), for every catalog file
InitBank ==
    /\ Constructed("genqr", DefaultParams)
    /\ BatchIdle
    /\ JsonIdle
    /\ prompt_id = ""
    /\ bound = EmptyKwargs
    /\ messages = <<>>
    /\ render_error = "none"
    /\ rpc = "idle"
    /\ yaml_items \in CatalogFiles
    /\ by_id = PromptBankInit(yaml_items)
    /\ listed = NoneVal
    /\ got_meta = NoneVal
    /\ RegistryIdle
    /\ SetupIdle
    /\ FnIdle

\* bank.render(id, **b), returning or raising
BankRender ==
    \E id \in BankIds, b \in BankBindings :
        /\ prompt_id' = id
        /\ bound' = b
        /\ RenderOutcome(Render(TemplatesOf(by_id), id, b))
        /\ UNCHANGED <<reformVars, batchVars, jsonVars, bankVars, registryVars, setupVars, fnVars>>

\* bank.list()
BankList ==
    /\ listed' = Some(List(by_id))
    /\ UNCHANGED <<coreVars, yaml_items, by_id, got_meta, registryVars, setupVars, fnVars>>

\* bank.get_meta(id), returning or raising
BankGetMeta ==
    \E id \in BankIds :
        /\ got_meta' = Some([id |-> id, outcome |-> GetMeta(by_id, id)])
        /\ UNCHANGED <<coreVars, yaml_items, by_id, listed, registryVars, setupVars, fnVars>>

NextBank == BankRender \/ BankList \/ BankGetMeta

SpecBank == InitBank /\ [][NextBank]_vars

(***************************************************************************)
(* The method registry: register_method.                                   *)
(***************************************************************************)
\* the most register_method calls of a run
MaxRegs == 3

\* the names and the classes of the registrations
RegNames == {"genqr", "mugi"}

RegClasses == {"GENQR", "MuGI", "Other"}

\* a registry in which the first class registered under a name stays
SetMethodKeepingFirst(ms, name, cls) ==
    IF name \in DOMAIN ms THEN ms ELSE Put(ms, name, cls)

\* METHODS[name] = cls
SetMethod(ms, name, cls) == Put(ms, name, cls)

\* the module body: METHODS = {}
InitRegistry ==
    /\ Constructed("genqr", DefaultParams)
    /\ BatchIdle
    /\ JsonIdle
    /\ PromptIdle

\* register_method(name)(cls): deco stores the class and returns it
RegisterMethod(name, cls) ==
    /\ Len(reg_log) < MaxRegs
    /\ METHODS' = SetMethod(METHODS, name, cls)
    /\ deco_returned' = Some(cls)
    /\ reg_log' = Append(reg_log, [name |-> name, cls |-> cls])
    /\ UNCHANGED <<coreVars, bankVars, setupVars, fnVars>>

NextRegistry == \E name \in RegNames, cls \in RegClasses : RegisterMethod(name, cls)

SpecRegistry == InitRegistry /\ [][NextRegistry]_vars

(***************************************************************************)
(* run_method and create_reformulator.                                     *)
(***************************************************************************)
\* the decorators the import of the package runs, in import order; a class
\* is written as the name of its method
Decorators ==
    << "genqr", "genqr_ensemble", "query2doc", "qa_expand", "mugi", "lamer",
       "query2e", "csqe" >>

\* the registrations made by the import of the package
ImportLog == [k \in 1..Len(Decorators) |-> [name |-> Decorators[k], cls |-> Decorators[k]]]

\* METHODS after the registrations of a log
RECURSIVE RegistryAfter(_, _, _)
RegistryAfter(log, i, ms) ==
    IF i > Len(log) THEN ms
    ELSE RegistryAfter(log, i + 1, SetMethod(ms, log[i].name, log[i].cls))

\* the method_name arguments: registered names and names never registered
SetupNames == BatchMethods \cup {"nosuch", ""}

\* a lookup that falls back to GENQR for a name it does not hold
LookupOrDefault(ms, name) ==
    [err |-> "none", cls |-> IF name \in DOMAIN ms THEN ms[name] ELSE "genqr"]

\* METHODS[method_name] and the membership test before it
Lookup(ms, name) ==
    IF name \in DOMAIN ms
    THEN [err |-> "none", cls |-> ms[name]]
    ELSE [err |-> "KeyError", cls |-> "none"]

\* the package is imported, no reformulator exists
InitSetup ==
    /\ Constructed("none", DefaultParams)
    /\ BatchIdle
    /\ JsonIdle
    /\ NoRenderCall
    /\ BankIdle
    /\ reg_log = ImportLog
    /\ METHODS = RegistryAfter(ImportLog, 1, EmptyKwargs)
    /\ deco_returned = Some("csqe")
    /\ SetupIdle
    /\ FnIdle

\* the call leaves with the exception e
SetupRaise(e) ==
    /\ setup_pc' = "raised"
    /\ setup_error' = e
    /\ UNCHANGED <<entry, method_name>>

\* the call goes on with statement st
SetupGoto(st) ==
    /\ setup_pc' = st
    /\ UNCHANGED <<entry, method_name, setup_error>>

\* run_method(method_name, cfg, queries, prompt_bank_path, ctx_map) is called
RunMethodCall ==
    /\ setup_pc = "idle"
    /\ entry' = "run_method"
    /\ method_name' \in SetupNames
    /\ setup_pc' = "lookup"
    /\ UNCHANGED <<setup_error, coreVars, bankVars, registryVars, fnVars>>

\* create_reformulator(method_name, ...) is called; the configuration is built
CreateReformulatorCall ==
    /\ setup_pc = "idle"
    /\ entry' = "create_reformulator"
    /\ method_name' \in SetupNames
    /\ setup_pc' = "build_llm"
    /\ UNCHANGED <<setup_error, coreVars, bankVars, registryVars, fnVars>>

\* run_method: Method = METHODS[method_name]
SetupLookup ==
    /\ setup_pc = "lookup"
    /\ IF Lookup(METHODS, method_name).err = "none"
       THEN SetupGoto("build_llm")
       ELSE SetupRaise(Lookup(METHODS, method_name).err)
    /\ UNCHANGED <<coreVars, bankVars, registryVars, fnVars>>

\* build_llm: the client is constructed, or its constructor raises
SetupBuildLLM ==
    /\ setup_pc = "build_llm"
    /\ SetupGoto("load_bank") \/ SetupRaise("OpenAIError")
    /\ UNCHANGED <<coreVars, bankVars, registryVars, fnVars>>

\* PromptBank(prompt_bank_path): the file is read, or reading it raises
SetupLoadBank ==
    /\ setup_pc = "load_bank"
    /\ \/ SetupGoto(IF entry = "run_method" THEN "construct" ELSE "check")
       \/ SetupRaise("OSError")
    /\ UNCHANGED <<coreVars, bankVars, registryVars, fnVars>>

\* create_reformulator: if method_name not in METHODS: raise ValueError
SetupCheck ==
    /\ setup_pc = "check"
    /\ IF Lookup(METHODS, method_name).err = "none"
       THEN SetupGoto("construct")
       ELSE SetupRaise("ValueError")
    /\ UNCHANGED <<coreVars, bankVars, registryVars, fnVars>>

\* Method(cfg, llm, pb); create_reformulator returns the object
SetupConstruct ==
    /\ setup_pc = "construct"
    /\ method' = Lookup(METHODS, method_name).cls
    /\ params' \in BatchParamsOf(method')
    /\ SetupGoto(IF entry = "run_method" THEN "batch" ELSE "returned")
    /\ UNCHANGED <<llm, retries, retrieval, fewshot_data, loads, ncalls, q, contexts, pc>>
    /\ UNCHANGED <<fut, raw, acc, order, sent, result, error>>
    /\ UNCHANGED <<batchVars, jsonVars, promptVars, bankVars, registryVars, fnVars>>

\* run_method: reformulator.reformulate_batch(queries, ctx_map) is called
SetupBatchCall == setup_pc = "batch" /\ BatchCall

\* the statements of run_method and create_reformulator before the batch
SetupStep ==
    \/ SetupLookup
    \/ SetupBuildLLM
    \/ SetupLoadBank
    \/ SetupCheck
    \/ SetupConstruct
    \/ SetupBatchCall

NextSetup ==
    \/ RunMethodCall
    \/ CreateReformulatorCall
    \/ SetupStep
    \/ BatchIterate
    \/ BatchAppend
    \/ BatchRaise
    \/ BatchReturn
    \/ ChatReturn
    \/ ChatRaise
    \/ \E i \in 1..MaxSlots : TaskStart(i)
    \/ \E i \in 1..MaxSlots : TaskReturn(i)
    \/ \E i \in 1..MaxSlots : TaskRaise(i)
    \/ \E i \in 1..MaxSlots : Collect(i)
    \/ \E i \in 1..MaxSlots : CollectFailed(i)
    \/ Unwind

SpecSetup == InitSetup /\ [][NextSetup]_vars

(***************************************************************************)
(* The functions of the expanded string, called once on drawn arguments.   *)
(***************************************************************************)
\* the largest query_repeats / repeat_query_weight drawn
MaxReps == 3

\* the prompts of the legacy GenQREnsemble
LegacyVariantIds == <<"genqr.keywords.v1", "genqr.keywords.variant.v1">>

\* all_terms after the loop over the variants from index i on
RECURSIVE LegacyAllTerms(_, _)
LegacyAllTerms(outs, i) ==
    IF i > Len(LegacyVariantIds) THEN <<>>
    ELSE CommaTerms(outs[i]) \o LegacyAllTerms(outs, i + 1)

\* an expanded string with the terms first
LegacyExpandedTermsFirst(text, reps, outs) ==
    JoinSp(LegacyAllTerms(outs, 1) \o Repeat(text, reps))

\* the legacy GenQREnsemble.reformulate: " ".join(([q.text]*reps) + all_terms)
LegacyExpanded(text, reps, outs) ==
    JoinSp(Repeat(text, reps) \o LegacyAllTerms(outs, 1))

\* the query texts and the generated contents drawn
FnTexts == {<<"Q", "r">>, <<"b">>, <<>>}

FnGenerated == {<<"g">>, <<"Q", "r", " ", "g">>, <<"a", " ", "b", " ", "c">>, <<>>}

\* what the LLM answers to one keyword prompt
FnOutputs ==
    { <<"a", ",", " ", "b", ",", " ", "c">>, <<"x", "\n", "y">>, <<" ", ",">>,
      <<"Q", "r", ",", "t">> }

\* the most passages LameR generates in a call drawn
MaxPassages == 3

\* what the LLM answers to the LameR prompt
FnPassages == {<<"g">>, <<"\"", "Q", "r", "\"">>, <<>>, <<" ", "p", " ", "q">>}

\* LameR.reformulate from the answers on: the cleaned passages interleaved
LameRExpanded(text, raws) == InterleavedQueryContent(text, MapCleanQuotes(raws))

\* the longest pseudo-document text drawn, in characters
MaxDocLen == 12

\* the adaptive_times values of the configuration, after int(...)
Divisors == {-2, -1, 0, 1, 2, 6}

\* the joined pseudo-documents: any text of up to MaxDocLen characters
FnDocs == {[i \in 1..k |-> "d"] : k \in 0..MaxDocLen}

\* MuGI.reformulate, the repetition count: the integer division by
\* adaptive_times raises for a zero divisor when it is reached
MuGIRepetition(text, docs, adaptive_times) ==
    IF Len(text) > 0 /\ adaptive_times = 0
    THEN [err |-> "ZeroDivisionError", v |-> 0]
    ELSE [err |-> "none", v |-> RepetitionTimes(Len(text), Len(docs), adaptive_times)]

\* the longest LLM answer drawn for _parse_keywords, in characters
MaxKeywordsLen == 4

KeywordsAlphabet == {"a", ",", " ", "\n", "-", "*", Bullet}

\* the answers handed to _parse_keywords: every short text and three longer
KeywordsTexts ==
    UNION {[1..k -> KeywordsAlphabet] : k \in 0..MaxKeywordsLen}
        \cup { <<"a", ",", " ", "b", ",", " ", "c">>,
               <<"-", " ", "a", "\n", "-", " ", "b">>,
               <<" ", "*", "a", " ", "b", "\n", "\n", Bullet, "-", "c", ",", "\n", "-">> }

\* the most queries of a batch_search call drawn
MaxBatch == 2

\* str(idx) for the positions of a batch
TopicId(idx) == <<"0", "1", "2", "3", "4">>[idx + 1]

SearchHit(docid, score, content, metadata) ==
    [docid |-> docid, score |-> score, content |-> content, metadata |-> metadata]

\* the documents the index holds for a query text, best first
HitCount(text) == IF text = "x" THEN 2 ELSE 1

\* the hits a Lucene searcher gives for a text: the first carries a raw
\* document, the second only its contents attribute
LuceneHits(text, k) ==
    [j \in 1..Min(k, HitCount(text)) |->
        [docid |-> <<text, NumStr[j]>>, score |-> 10 - j,
         raw |-> IF j = 1 THEN Some([contents |-> <<"raw", text>>]) ELSE NoneVal,
         contents |-> <<"c", text>>]]

\* _process_hits with answer_key "contents"
ProcessHits(hits) ==
    [j \in 1..Len(hits) |->
        SearchHit(hits[j].docid, hits[j].score,
                  IF hits[j].raw.isNone THEN hits[j].contents
                  ELSE hits[j].raw.v.contents,
                  [raw_content |-> hits[j].raw, answer_key |-> "contents"])]

\* what searcher.batch_search returns: a dict topic id -> hits whose keys
\* come in the order perm
LuceneBatchSearch(qs, k, perm) ==
    [j \in 1..Len(qs) |->
        [key |-> TopicId(perm[j] - 1), hits |-> LuceneHits(qs[perm[j]], k)]]

\* results[id_]
ResultsOf(results, id) ==
    results[CHOOSE j \in 1..Len(results) : results[j].key = id].hits

\* the values of the dict taken by position
PyseriniBatchSearchByPosition(qs, k, results) ==
    [i \in 1..Len(qs) |-> ProcessHits(results[i].hits)]

\* PyseriniSearcher.batch_search and the wrapper of wrap_pyserini_searcher
PyseriniBatchSearch(qs, k, results) ==
    [i \in 1..Len(qs) |-> ProcessHits(ResultsOf(results, TopicId(i - 1)))]

\* the rows of the data frame a retriever gives for one query
TerrierRows(qid, text) ==
    [j \in 1..HitCount(text) |->
        [qid |-> qid, docno |-> <<text, NumStr[j]>>, score |-> 10 - j,
         text |-> <<"t", text>>, rank |-> j - 1]]

\* searcher.transform(query_df): the rows of all queries, grouped in the
\* order perm
TerrierTransform(qs, perm) ==
    Flatten([j \in 1..Len(qs) |-> TerrierRows(TopicId(perm[j] - 1), qs[perm[j]])])

\* df.head(k)
HeadOf(rows, k) == SubSeq(rows, 1, Min(k, Len(rows)))

\* PyTerrierSearcher._process_results
ProcessResults(rows) ==
    [j \in 1..Len(rows) |->
        SearchHit(rows[j].docno, rows[j].score, rows[j].text,
                  [qid |-> rows[j].qid, docno |-> rows[j].docno])]

\* PyTerrierSearcher.batch_search
PyTerrierBatchSearch(qs, k, rows) ==
    [i \in 1..Len(qs) |->
        ProcessResults(HeadOf(SelectSeq(rows, LAMBDA r : r.qid = TopicId(i - 1)), k))]

\* the wrapper of wrap_pyterrier_retriever: search, with its mock results
\* when the retriever raises
TerrierWrapperSearch(text, k, fails) ==
    IF fails
    THEN [i \in 1..Min(k, 3) |->
             SearchHit(<<"doc", NumStr[i]>>, 11 - i, <<"Content for query: ", text>>,
                       [fallback |-> TRUE])]
    ELSE [j \in 1..Min(k, HitCount(text)) |->
             SearchHit(<<text, NumStr[j]>>, 10 - j, <<"t", text>>,
                       [user_defined |-> TRUE, rank |-> j - 1])]

\* the wrapper of wrap_pyterrier_retriever: batch_search
TerrierWrapperBatchSearch(qs, k, fails) ==
    [i \in 1..Len(qs) |-> TerrierWrapperSearch(qs[i], k, fails)]

\* the tuples search_func gives: the first with a content, the second without
CustomResults(text, k) ==
    [j \in 1..Min(k, HitCount(text)) |->
        IF j = 1 THEN <<<<text, NumStr[j]>>, 10 - j, <<"c", text>>>>
        ELSE <<<<text, NumStr[j]>>, 10 - j>>]

\* CustomWrapper.search
CustomSearch(text, k) ==
    [j \in 1..Len(CustomResults(text, k)) |->
        SearchHit(CustomResults(text, k)[j][1], CustomResults(text, k)[j][2],
                  IF Len(CustomResults(text, k)[j]) >= 3
                  THEN CustomResults(text, k)[j][3]
                  ELSE CustomResults(text, k)[j][1],
                  [user_defined |-> TRUE, custom_searcher |-> TRUE])]

\* CustomWrapper.batch_search: with a batch function one search per pair of
\* zip(queries, batch_results), nlists the length of what the function gave
CustomBatchSearch(qs, k, has_batch, nlists) ==
    IF has_batch
    THEN [i \in 1..Min(Len(qs), nlists) |-> CustomSearch(qs[i], k)]
    ELSE [i \in 1..Len(qs) |-> CustomSearch(qs[i], k)]

\* batch_search of the implementation impl
BatchSearch(a) ==
    CASE a.impl \in {"PyseriniSearcher", "wrap_pyserini_searcher"} ->
             PyseriniBatchSearch(a.qs, a.k, LuceneBatchSearch(a.qs, a.k, a.perm))
      [] a.impl = "PyTerrierSearcher" ->
             PyTerrierBatchSearch(a.qs, a.k, TerrierTransform(a.qs, a.perm))
      [] a.impl = "wrap_pyterrier_retriever" ->
             TerrierWrapperBatchSearch(a.qs, a.k, a.fails)
      [] a.impl = "wrap_custom_searcher" ->
             CustomBatchSearch(a.qs, a.k, a.has_batch, a.nlists)

\* the orders in which a backend hands back the results of n queries
Perms(n) == {f \in [1..n -> 1..n] : \A i, j \in 1..n : f[i] = f[j] => i = j}

Impls ==
    { "PyseriniSearcher", "PyTerrierSearcher", "wrap_pyserini_searcher",
      "wrap_pyterrier_retriever", "wrap_custom_searcher" }

QueryLists == UNION {[1..n -> {"x", "y"}] : n \in 0..MaxBatch}

\* the batch_search calls: the order of the backend's answer matters for the
\* dict and the data frame, a failing retriever for the PyTerrier wrapper,
\* the length of the batch function's answer for the custom wrapper
SearchCalls ==
    { c \in [impl : Impls, qs : QueryLists, k : {1, 3},
             perm : UNION {Perms(n) : n \in 0..MaxBatch}, fails : BOOLEAN,
             has_batch : BOOLEAN, nlists : 0..(MaxBatch + 1)] :
        /\ Len(c.perm) = Len(c.qs)
        /\ c.fails => c.impl = "wrap_pyterrier_retriever"
        /\ c.has_batch => c.impl = "wrap_custom_searcher"
        /\ IF c.has_batch THEN c.nlists <= Len(c.qs) + 1 ELSE c.nlists = Len(c.qs)
        /\ c.impl \in {"wrap_pyterrier_retriever", "wrap_custom_searcher"} =>
               \A i \in 1..Len(c.perm) : c.perm[i] = i }

\* the arguments of each function
\* the query texts of the CSQE calls: mixed case, quoted, with a leading
\* blank, empty
CSQEQueries ==
    { <<"Q", "r">>, <<"\"", "Q", "\"", " ", "r">>, <<"'", "Q">>, <<" ", "b">>,
      <<>> }

\* the cleaned knowledge passages and the extracted sentences
CSQEPassages == { <<"P", " ", "a">>, <<"b", "'">>, <<>> }

\* gen_num, the query text, one passage and one sentence per choice
CSQECalls ==
    UNION { [n : {k}, query : CSQEQueries, keqe_passages : [1..k -> CSQEPassages],
             csqe_sentences : [1..k -> CSQEPassages]] : k \in 1..MaxGen }

\* the contexts arguments: None and the lists of up to MaxPassages passages
FnContexts ==
    {NoneVal} \cup
    {Some(c) : c \in UNION {[1..k -> {Passages[1], Passages[2]}] :
                                k \in 0..MaxPassages}}

\* the values of cfg.params["retrieval_k"]
RetrievalKs == {-1, 0, 1, 2, 10}

FnInputs(f) ==
    CASE f = "query_repeat_plus_generated" ->
             [query : FnTexts, generated : FnGenerated, repeats : 0..MaxReps]
      [] f = "legacy_genqr_ensemble" ->
             [query : FnTexts, repeats : 0..MaxReps,
              outs : [1..Len(LegacyVariantIds) -> FnOutputs]]
      [] f = "interleaved_query_content" ->
             [query : FnTexts,
              raws : UNION {[1..k -> FnPassages] : k \in 0..MaxPassages}]
      [] f = "repetition_times" ->
             [query : FnTexts, docs : FnDocs, adaptive_times : Divisors]
      [] f = "_parse_keywords" -> [keywords_text : KeywordsTexts]
      [] f = "batch_search" -> SearchCalls
      [] f = "csqe_reformulated" -> CSQECalls
      [] f = "contexts_blob" -> [contexts : FnContexts, retrieval_k : RetrievalKs]

FnNames ==
    { "query_repeat_plus_generated", "legacy_genqr_ensemble",
      "interleaved_query_content", "repetition_times", "_parse_keywords",
      "batch_search", "csqe_reformulated", "contexts_blob" }

InitFn ==
    /\ Constructed("genqr", DefaultParams)
    /\ BatchIdle
    /\ JsonIdle
    /\ NoRenderCall
    /\ BankIdle
    /\ RegistryIdle
    /\ SetupIdle
    /\ fn \in FnNames
    /\ fn_in \in FnInputs(fn)
    /\ fn_out = NoneVal
    /\ fn_pc = "idle"

\* the call of f returns v
FnReturn(f, v) ==
    /\ fn_pc = "idle"
    /\ fn = f
    /\ fn_out' = Some(v)
    /\ fn_pc' = "done"
    /\ UNCHANGED <<fn, fn_in, coreVars, bankVars, registryVars, setupVars>>

\* concatenate_result(query, generated, query_repeats = r)
ApplyQueryRepeat ==
    FnReturn("query_repeat_plus_generated",
             QueryRepeatPlusGenerated(fn_in.query, fn_in.generated, fn_in.repeats))

\* the legacy GenQREnsemble.reformulate, the expanded string
ApplyLegacyEnsemble ==
    FnReturn("legacy_genqr_ensemble",
             LegacyExpanded(fn_in.query, fn_in.repeats, fn_in.outs))

\* LameR: concatenate_result(q.text, gen_passages)
ApplyInterleaved ==
    FnReturn("interleaved_query_content", LameRExpanded(fn_in.query, fn_in.raws))

\* MuGI: repetition_times for the query and the joined pseudo-documents
ApplyRepetition ==
    FnReturn("repetition_times",
             MuGIRepetition(fn_in.query, fn_in.docs, fn_in.adaptive_times))

\* GenQREnsemble._parse_keywords(keywords_text)
ApplyParseKeywords ==
    FnReturn("_parse_keywords", ParseKeywords(fn_in.keywords_text))

\* searcher.batch_search(queries, k)
ApplyBatchSearch == FnReturn("batch_search", BatchSearch(fn_in))

\* CSQE.reformulate: the reformulated string of the parts
ApplyCSQEReformulated ==
    FnReturn("csqe_reformulated",
             CSQEReformulated(fn_in.query, fn_in.n, fn_in.keqe_passages,
                              fn_in.csqe_sentences))

\* LameR / CSQE.reformulate: the contexts block of the prompt and used_ctx
ApplyContextsBlob ==
    FnReturn("contexts_blob",
             [contexts_blob |-> Blob(fn_in, fn_in.contexts),
              used_ctx |-> Len(PromptCtxs(OrEmptyList(fn_in.contexts),
                                          fn_in.retrieval_k))])

NextFn ==
    \/ ApplyContextsBlob
    \/ ApplyCSQEReformulated
    \/ ApplyQueryRepeat
    \/ ApplyLegacyEnsemble
    \/ ApplyInterleaved
    \/ ApplyRepetition
    \/ ApplyParseKeywords
    \/ ApplyBatchSearch

SpecFn == InitFn /\ [][NextFn]_vars

(***************************************************************************)
(* Properties of reformulate.                                              *)
(***************************************************************************)
Returned == pc = "done" /\ result # <<>>

\* the keywords of the variants 1..n in variant order, each variant's in its
\* parsed order
RECURSIVE KeywordsInVariantOrder(_, _)
KeywordsInVariantOrder(answers, n) ==
    IF n = 0 THEN <<>>
    ELSE KeywordsInVariantOrder(answers, n - 1) \o ParseKeywords(answers[n])

\* the cleaned pseudo-documents of the generations 1..n in generation order
DocsInGenerationOrder(answers, n) == [i \in 1..n |-> CleanQuotes(answers[i])]

\* C1: a parallel GenQREnsemble.reformulate returns the merged keyword list
\* (metadata 'keywords', from which the generated part of the reformulated
\* string is joined) as the keywords of variant 1, then variant 2, ..., then
\* variant N, each variant's in parsed order, whatever the order in which the
\* variant calls completed.
C1_EnsembleKeywordsInVariantOrder ==
    (Returned /\ method = "genqr_ensemble" /\ params.parallel) =>
        /\ result[1].metadata.keywords =
               KeywordsInVariantOrder(raw, params.n)
        /\ result[1].metadata.total_keywords =
               Len(KeywordsInVariantOrder(raw, params.n))

\* C2: a parallel MuGI.reformulate returns metadata 'pseudo_docs' in
\* generation order: position i holds the output of the i-th submitted task,
\* whatever the order in which the tasks completed.
C2_MuGIDocsInGenerationOrder ==
    (Returned /\ method = "mugi" /\ params.parallel) =>
        /\ result[1].metadata.pseudo_docs =
               DocsInGenerationOrder(raw, params.n)
        /\ result[1].metadata.docs_len =
               Len(JoinSp(DocsInGenerationOrder(raw, params.n)))

\* an LLM call of the current reformulate call raised
ChatFailed == \E i \in 1..MaxSlots : fut[i] = "failed"

\* the reformulate call has ended
Ended == pc \in {"done", "raised"} /\ ncalls > 0

\* the call returned the original query as a fallback
FellBack ==
    /\ pc = "done"
    /\ error = "none"
    /\ Len(result) = 1
    /\ result[1].qid = q.qid
    /\ result[1].original = q.text
    /\ result[1].reformulated = q.text
    /\ "fallback" \in DOMAIN result[1].metadata
    /\ result[1].metadata.fallback = TRUE
    /\ "error" \in DOMAIN result[1].metadata
    /\ result[1].metadata.error # ""

\* the failure of the LLM call left reformulate, which returned no result
Propagated == pc = "raised" /\ error = "LLMError" /\ result = <<>>

\* C4: when the LLM chat call raises, Query2Doc.reformulate (in any mode)
\* does not raise: it returns a result whose reformulated text is the
\* original query text and whose metadata has fallback == true and an error
\* description.
C4_Query2DocFallsBackOnChatFailure ==
    (method = "query2doc" /\ ChatFailed) => FellBack

C4_Witness ==
    /\ method = "query2doc"
    /\ params.mode \in FewShotModes
    /\ ChatFailed
    /\ pc = "done"
    /\ q.text # <<>>

C6_FewShotConfigErrorSurfaces ==
    (/\ method = "query2doc"
     /\ params.mode \in FewShotModes
     /\ ~params.fewshot
     /\ Ended)
    => /\ pc = "raised"
       /\ error # "none"
       /\ result = <<>>
       /\ sent = <<>>

\* C8: a reformulator never mutates its configuration: no reformulate or
\* _get_retrieval_params call changes cfg.params or cfg.llm, nested mappings
\* such as params['searcher_kwargs'] included.
C8_ConfigNeverMutated == [][params' = params /\ llm' = llm]_vars

\* the chat requests reformulate(q, []) sends
RequestsWithEmptyContexts ==
    [i \in 1..Len(sent) |-> Request(method, params, q, Some(<<>>), i, <<>>)]

\* C9: for LameR and CSQE, reformulate(q, contexts=None) does not raise
\* (unless an LLM call does), sends the prompts reformulate(q, contexts=[])
\* sends and, given the same LLM responses, returns the same reformulated
\* text and metadata, with used_ctx == 0.
C9_NoneContextsAsEmpty ==
    (method \in {"lamer", "csqe"} /\ contexts = NoneVal) =>
        /\ sent = RequestsWithEmptyContexts
        /\ pc = "raised" => (error = "LLMError" /\ ChatFailed)
        /\ Returned =>
              /\ result[1] = Assemble(method, params, q, Some(<<>>), acc, raw)
              /\ result[1].metadata.used_ctx = 0

C9_Witness ==
    /\ method = "lamer"
    /\ contexts = NoneVal
    /\ Returned
    /\ Len(sent) = MaxGen

\* what a qid absent from ctx_map, or any qid of a None ctx_map, is passed as
NoContextFor(i) ==
    \/ ctx_map = NoneVal
    \/ queries[i].qid \notin DOMAIN ctx_map.v

\* C3: reformulate_batch returns one result per input query in input order,
\* for any list of queries (the empty list and repeated qids included) and
\* any ctx_map (None, or a map missing some qids): the i-th result has the
\* qid of the i-th query, and a qid absent from ctx_map is passed to
\* reformulate as None; the call raises only when a reformulate call does.
C3_BatchOneResultPerQueryInOrder ==
    /\ bpc = "done" =>
          /\ Len(out) = Len(queries)
          /\ \A i \in 1..Len(queries) :
                /\ out[i].qid = queries[i].qid
                /\ out[i].original = queries[i].text
    /\ \A i \in 1..Len(passed) :
          /\ i <= Len(queries)
          /\ NoContextFor(i) => passed[i] = NoneVal
          /\ ~NoContextFor(i) => passed[i] = Some(ctx_map.v[queries[i].qid])
    /\ bpc = "raised" => (pc = "raised" /\ error # "none")

C3_Witness ==
    /\ bpc = "done"
    /\ method = "lamer"
    /\ Len(queries) = MaxCalls
    /\ queries[1].qid = queries[2].qid
    /\ queries[1].text # queries[2].text
    /\ ctx_map = Some([q2 |-> SubSeq(Passages, 1, 1)])

\* C7: parse_llm_json returns a mapping (possibly empty) for every input
\* string: empty, garbage, fenced, truncated, and valid JSON whose top-level
\* value is a list, a number, a string, a boolean or null.
C7_ParseAlwaysMapping == jpc = "done" => json_value.t = "dict"

\* the role is a key of the template rendered last
PresentRole(role) == HasRole(Catalog[prompt_id], role)

\* C10: PromptBank.render returns one message per role of the template among
\* system, user, assistant, in that order whatever the key order of the
\* catalog entry, nothing for an absent role, and each content is the role's
\* template with every placeholder replaced by its bound value: the template
\* {user: 'Hello {name}'} with name='Ada' gives [{role: user, content:
\* 'Hello Ada'}].
C10_RenderRolesInFixedOrder ==
    rpc = "done" =>
        /\ prompt_id \in DOMAIN Catalog
        /\ [k \in 1..Len(messages) |-> messages[k].role] =
               SelectSeq(<<"system", "user", "assistant">>, PresentRole)
        /\ \A k \in 1..Len(messages) :
               Format(RoleTemplate(Catalog[prompt_id], messages[k].role), bound)
                   = Formatted(messages[k].content)
        /\ (/\ prompt_id = "hello"
            /\ "name" \in DOMAIN bound
            /\ bound["name"] = JStr(<<"Ada">>))
           => messages = <<[role |-> "user",
                            content |-> <<"Hello", " ", "Ada">>]>>

C10_Witness ==
    /\ rpc = "done"
    /\ prompt_id = "reversed"
    /\ Len(messages) = 3
    /\ messages[2].content = <<"1", "2", " ", "{", "query", "}">>

\* the names between single braces of a format string, from index i on
RECURSIVE FieldNames(_, _)
FieldNames(t, i) ==
    IF i > Len(t) THEN {}
    ELSE IF i < Len(t) /\ t[i] \in {"{", "}"} /\ t[i + 1] = t[i]
    THEN FieldNames(t, i + 2)
    ELSE IF t[i] = "{" /\ IndexFrom(t, "}", i + 1) # 0
    THEN {SubSeq(t, i + 1, IndexFrom(t, "}", i + 1) - 1)}
             \cup FieldNames(t, IndexFrom(t, "}", i + 1) + 1)
    ELSE FieldNames(t, i + 1)

\* the placeholders of the system, user and assistant strings of a template
Placeholders(tpl) ==
    UNION {FieldNames(RoleTemplate(tpl, role), 1) :
               role \in {"system", "user", "assistant"}}

\* a placeholder of the template rendered last has no keyword argument
SomeUnbound ==
    \E name \in Placeholders(Catalog[prompt_id]) :
        Len(name) # 1 \/ name[1] \notin DOMAIN bound

\* the templates whose braces all pair up into {name}, {{ and }}
WellFormedIds == DOMAIN Catalog \ {"stray", "open", "positional"}

\* C11: PromptBank.render fails instead of returning a partial message list:
\* an unknown prompt_id raises a LookupError-class error (KeyError), and a
\* template one of whose system, user or assistant strings references a
\* placeholder that is not supplied as a keyword raises a missing-variable
\* error (KeyError); a call that raises returns no message.
C11_RenderFailsOnUnknownOrUnbound ==
    rpc # "idle" =>
        /\ prompt_id \notin DOMAIN Catalog =>
               (rpc = "raised" /\ render_error = "KeyError")
        /\ (prompt_id \in WellFormedIds /\ SomeUnbound) =>
               (rpc = "raised" /\ render_error = "KeyError")
        /\ rpc = "raised" => messages = <<>>
        /\ rpc = "done" => render_error = "none"

C11_Witness ==
    /\ rpc = "raised"
    /\ prompt_id = "full"
    /\ DOMAIN bound = {"n"}
    /\ render_error = "KeyError"

\* the ids of the loaded catalog file
LoadedIds == {yaml_items[k]["id"] : k \in 1..Len(yaml_items)}

\* a list without repetition whose elements are the loaded ids
ListsLoadedIds(ids) ==
    /\ {ids[k] : k \in 1..Len(ids)} = LoadedIds
    /\ Len(ids) = Cardinality(LoadedIds)
    /\ yaml_items # <<>> => ids # <<>>

\* list() and get_meta of every id give the same before and after the step
SameAnswers ==
    /\ List(by_id)' = List(by_id)
    /\ \A id \in BankIds : GetMeta(by_id, id)' = GetMeta(by_id, id)

\* C12: PromptBank has no side effects after the initial load: list() returns
\* exactly the distinct prompt ids of the loaded catalog (non-empty for a
\* non-empty catalog), and no step (a render call that returns or raises
\* included) changes what list() and get_meta(id) return.
C12_BankUnchangedAfterLoad ==
    /\ [](ListsLoadedIds(List(by_id)))
    /\ [](listed # NoneVal => ListsLoadedIds(listed.v))
    /\ [][SameAnswers]_vars

\* list() was called after a render call that raised and one id was loaded twice
C12_Witness ==
    /\ rpc = "raised"
    /\ listed # NoneVal
    /\ Len(yaml_items) = 2
    /\ Len(listed.v) = 1
    /\ got_meta # NoneVal

\* the positions of the registrations of a name
RegistrationsOf(name) == {k \in 1..Len(reg_log) : reg_log[k].name = name}

\* the class of the most recent registration of a name
LastRegistered(name) ==
    reg_log[CHOOSE k \in RegistrationsOf(name) : \A j \in RegistrationsOf(name) : j <= k].cls

\* every registered name is bound to the class registered last under it
LastRegistrationWins ==
    /\ DOMAIN METHODS = {reg_log[k].name : k \in 1..Len(reg_log)}
    /\ \A name \in DOMAIN METHODS : METHODS[name] = LastRegistered(name)

\* the step registers one name: the other bindings stay, the class comes back
RegistrationStep ==
    /\ reg_log' # reg_log
    /\ \A name \in DOMAIN METHODS :
           name # reg_log'[Len(reg_log')].name =>
               (name \in DOMAIN METHODS' /\ METHODS'[name] = METHODS[name])
    /\ DOMAIN METHODS' = DOMAIN METHODS \cup {reg_log'[Len(reg_log')].name}
    /\ deco_returned' = Some(reg_log'[Len(reg_log')].cls)

\* C13: after any sequence of register_method calls METHODS maps each name to
\* the class given in the most recent registration of that name, a
\* registration leaves the bindings of all other names unchanged, and the
\* decorator returns the class it was given.
C13_LastRegistrationWins ==
    /\ [](LastRegistrationWins)
    /\ [][RegistrationStep]_vars

\* a name was registered twice with different classes, another name once
C13_Witness ==
    /\ Len(reg_log) = 3
    /\ reg_log[1].name = reg_log[3].name
    /\ reg_log[1].cls # reg_log[3].cls
    /\ reg_log[2].name # reg_log[1].name

\* the method_name of the call was never registered
NeverRegistered ==
    /\ entry # "none"
    /\ \A k \in 1..Len(reg_log) : reg_log[k].name # method_name

\* no reformulator was built, no query was handed to reformulate and no
\* request went to the LLM
NothingProcessed ==
    /\ method = "none"
    /\ pc = "idle"
    /\ bpc = "idle"
    /\ passed = <<>>
    /\ out = <<>>
    /\ ncalls = 0
    /\ sent = <<>>

\* C14: resolving a method name that was never registered fails and aborts
\* setup before any query is processed: run_method raises KeyError at its
\* first statement, create_reformulator raises at the latest at its
\* membership test (ValueError), neither returns, and up to the exception no
\* reformulator is built, reformulate is called on no query and no LLM call
\* is issued.
C14_UnknownMethodAbortsSetup ==
    NeverRegistered =>
        /\ NothingProcessed
        /\ setup_pc \notin {"construct", "batch", "returned"}
        /\ setup_pc # "raised" => ENABLED SetupStep
        /\ setup_pc = "raised" =>
               IF entry = "run_method"
               THEN setup_error = "KeyError"
               ELSE setup_error \in {"ValueError", "OpenAIError", "OSError"}

\* create_reformulator raised at its membership test for an unregistered name
C14_Witness ==
    /\ NeverRegistered
    /\ entry = "create_reformulator"
    /\ setup_pc = "raised"
    /\ setup_error = "ValueError"

\* s holds the text r times from position 1 on, a space after each copy
CopiesThenSpace(s, text, r) ==
    /\ Len(s) >= r * (Len(text) + 1)
    /\ \A k \in 0..(r - 1) :
           /\ SubSeq(s, k * (Len(text) + 1) + 1, k * (Len(text) + 1) + Len(text)) = text
           /\ s[(k + 1) * (Len(text) + 1)] = " "

\* s is r copies of the text, a space after each, and then the content
RepeatsThenContent(s, text, r, content) ==
    /\ CopiesThenSpace(s, text, r)
    /\ SubSeq(s, r * (Len(text) + 1) + 1, Len(s)) = content

\* the terms of the variants of the call, in the order of the variant ids
TermsInVariantOrder ==
    Flatten([k \in 1..Len(LegacyVariantIds) |-> CommaTerms(fn_in.outs[k])])

\* C15: query_repeat_plus_generated: for query_repeats = r >= 1 the expanded
\* string is the query text r times, a single space after each copy, and
\* then the generated content (for r = 0 a space and the content); the legacy GenQREnsemble gives
\* " ".join([query] * repeat_query_weight + terms) with the terms of the
\* variants in the order of VARIANT_IDS, which has the same shape whenever
\* there is at least one term.
C15_QueryRepeatedBeforeGenerated ==
    fn_pc = "done" =>
        /\ (fn = "query_repeat_plus_generated" /\ fn_in.repeats >= 1) =>
               RepeatsThenContent(fn_out.v, fn_in.query, fn_in.repeats,
                                  fn_in.generated)
        /\ (fn = "query_repeat_plus_generated" /\ fn_in.repeats = 0) =>
               fn_out.v = <<" ">> \o fn_in.generated
        /\ fn = "legacy_genqr_ensemble" =>
               /\ fn_out.v = JoinSp(Repeat(fn_in.query, fn_in.repeats)
                                        \o TermsInVariantOrder)
               /\ (fn_in.repeats >= 1 /\ TermsInVariantOrder # <<>>) =>
                      RepeatsThenContent(fn_out.v, fn_in.query, fn_in.repeats,
                                         JoinSp(TermsInVariantOrder))

\* the legacy method repeated the query twice before six terms of two variants
C15_Witness ==
    /\ fn_pc = "done"
    /\ fn = "legacy_genqr_ensemble"
    /\ fn_in.repeats = 2
    /\ fn_in.query = <<"b">>
    /\ Len(TermsInVariantOrder) = 6
    /\ fn_out.v = <<"b", " ", "b", " ", "a", " ", "b", " ", "c", " ", "a", " ", "b", " ", "c">>

\* concatenate_result repeated a two-lexeme query three times
C15_WitnessStrategy ==
    /\ fn_pc = "done"
    /\ fn = "query_repeat_plus_generated"
    /\ fn_in.repeats = 3
    /\ fn_in.query = <<"Q", "r">>
    /\ fn_in.generated = <<"Q", "r", " ", "g">>

\* from position pos on, s is the query, a space and passage i, and after a
\* space the same for the passages after i, up to the end of s
RECURSIVE InterleavedFrom(_, _, _, _, _)
InterleavedFrom(s, pos, text, passages, i) ==
    IF i > Len(passages) THEN pos = Len(s) + 2
    ELSE /\ Len(s) >= pos + Len(text) + Len(passages[i])
         /\ SubSeq(s, pos, pos + Len(text) - 1) = text
         /\ s[pos + Len(text)] = " "
         /\ SubSeq(s, pos + Len(text) + 1, pos + Len(text) + Len(passages[i]))
                = passages[i]
         /\ (i < Len(passages) =>
                 s[pos + Len(text) + Len(passages[i]) + 1] = " ")
         /\ InterleavedFrom(s, pos + Len(text) + Len(passages[i]) + 2, text,
                            passages, i + 1)

\* C16: interleaved_query_content (used by LameR): for n generated passages
\* the output is query, g1, query, g2, ..., query, gn joined by single spaces:
\* one copy of the query immediately before each generated block, n in all,
\* the first at the start of the output; for no passage it is empty.
C16_QueryBeforeEveryPassage ==
    (fn_pc = "done" /\ fn = "interleaved_query_content") =>
        /\ fn_in.raws # <<>> =>
               InterleavedFrom(fn_out.v, 1, fn_in.query,
                               MapCleanQuotes(fn_in.raws), 1)
        /\ fn_in.raws = <<>> => fn_out.v = <<>>

\* three passages, one of them quoted, were interleaved with a query
C16_Witness ==
    /\ fn_pc = "done"
    /\ fn = "interleaved_query_content"
    /\ fn_in.query = <<"Q", "r">>
    /\ Len(fn_in.raws) = 3
    /\ fn_in.raws[2] = <<"\"", "Q", "r", "\"">>
    /\ fn_in.raws[3] = <<"g">>

\* C17: adaptive repetition (MuGI): the repetition count
\* max(1, (len(generated) // len(query)) // adaptive_times) is computed
\* without error and is >= 1 for every query text, every generated content
\* and every configured adaptive_times divisor.
C17_RepetitionAtLeastOne ==
    (fn_pc = "done" /\ fn = "repetition_times") =>
        (fn_out.v.err = "none" /\ fn_out.v.v >= 1)

\* the same for the divisors other than zero, and for the empty query
C17_RepetitionAtLeastOneNonZero ==
    (/\ fn_pc = "done"
     /\ fn = "repetition_times"
     /\ (fn_in.adaptive_times # 0 \/ fn_in.query = <<>>)) =>
        (fn_out.v.err = "none" /\ fn_out.v.v >= 1)

\* a count above one was computed
C17_Witness ==
    /\ fn_pc = "done"
    /\ fn = "repetition_times"
    /\ fn_out.v.err = "none"
    /\ fn_out.v.v = 3

\* a keyword with a character that is not whitespace at both ends
Trimmed(k) == k # <<>> /\ k[1] \notin Whitespace /\ k[Len(k)] \notin Whitespace

IsNotEmpty(k) == k # <<>>

\* a trimmed line without its leading dash, bullet or asterisk, trimmed again
Unmarked(l) == IF l # <<>> /\ l[1] \in {"-", Bullet, "*"} THEN Strip(Tail(l)) ELSE l

\* the trimmed comma fields of a text, in order, the empty ones left out
CommaFields(text) ==
    SelectSeq([i \in 1..Len(Split(text, ",")) |-> Strip(Split(text, ",")[i])],
              IsNotEmpty)

\* the lines of a text without marker, in order, the empty ones left out
ListLines(text) ==
    SelectSeq([i \in 1..Len(Split(text, "\n")) |-> Unmarked(Strip(Split(text, "\n")[i]))],
              IsNotEmpty)

\* the text has a newline or its first character after whitespace is a dash
IsList(text) ==
    \/ \E i \in 1..Len(text) : text[i] = "\n"
    \/ \E i \in 1..Len(text) :
           /\ text[i] = "-"
           /\ \A j \in 1..(i - 1) : text[j] \in Whitespace

\* C18: GenQREnsemble._parse_keywords returns for every input string, in
\* input order, only non-empty whitespace-trimmed keywords and never raises:
\* an input with a newline or starting with a dash gives one keyword per
\* line that is not empty once trimmed and freed of one leading dash, bullet
\* or asterisk ("- a\n- b" gives [a, b]), every other input its trimmed
\* non-empty comma fields ("a, b, c" gives [a, b, c]), the empty string [].
C18_ParseKeywordsTrimmedInOrder ==
    (fn_pc = "done" /\ fn = "_parse_keywords") =>
        /\ \A k \in 1..Len(fn_out.v) : Trimmed(fn_out.v[k])
        /\ IsList(fn_in.keywords_text) =>
               fn_out.v = ListLines(fn_in.keywords_text)
        /\ ~IsList(fn_in.keywords_text) =>
               fn_out.v = CommaFields(fn_in.keywords_text)
        /\ fn_in.keywords_text = <<"a", ",", " ", "b", ",", " ", "c">> =>
               fn_out.v = << <<"a">>, <<"b">>, <<"c">> >>
        /\ fn_in.keywords_text = <<"-", " ", "a", "\n", "-", " ", "b">> =>
               fn_out.v = << <<"a">>, <<"b">> >>
        /\ fn_in.keywords_text = <<>> => fn_out.v = <<>>

\* a list with an asterisk line, an empty line, a bullet line and a bare dash
C18_Witness ==
    /\ fn_pc = "done"
    /\ fn = "_parse_keywords"
    /\ Len(fn_in.keywords_text) = 13
    /\ fn_out.v = << <<"a", " ", "b">>, <<"-", "c", ",">> >>

\* the result of the call that returned names the query it was called with
ResultNamesInput ==
    Returned =>
        /\ Len(result) = 1
        /\ result[1].qid = q.qid
        /\ result[1].original = q.text

\* the QueryItem changes only when a new call is entered with another one
QueryItemKept == q' # q => pc \in {"idle", "done", "raised"}

\* C19: for every method and every execution path that returns (normal and
\* fallback), the result's original field equals the input query text
\* unchanged and its qid equals the input qid, and the input QueryItem is
\* not modified.
C19_ResultKeepsQidAndOriginal ==
    /\ [](ResultNamesInput)
    /\ [][QueryItemKept]_vars

\* CSQE returned an expanded string for a non-empty query
C19_Witness ==
    /\ Returned
    /\ method = "csqe"
    /\ q.text # <<>>
    /\ result[1].reformulated # q.text
    /\ result[1].original = q.text

\* a hit found for a query text: a document of that text, or the mock hit
\* made for it
HitFor(hit, text) ==
    hit.docid[1] = text \/ hit.content = <<"Content for query: ", text>>

\* the hits are the k best documents of the text in rank order, or mock hits
BestHitsFor(hits, text, k) ==
    /\ hits # <<>>
    /\ \A j \in 1..Len(hits) : HitFor(hits[j], text)
    /\ \/ \A j \in 1..Len(hits) : "fallback" \in DOMAIN hits[j].metadata
       \/ /\ Len(hits) = Min(k, HitCount(text))
          /\ \A j \in 1..Len(hits) : hits[j].docid = <<text, NumStr[j]>>

\* one list per query, the i-th holding the hits of the i-th query
OneListPerQueryInOrder(lists, qs, k) ==
    /\ Len(lists) = Len(qs)
    /\ \A i \in 1..Min(Len(lists), Len(qs)) : BestHitsFor(lists[i], qs[i], k)

\* C20: batch_search is order-preserving for every searcher implementation
\* (PyseriniSearcher, PyTerrierSearcher and the wrappers from
\* wrap_pyserini_searcher, wrap_pyterrier_retriever, wrap_custom_searcher,
\* with or without a user batch function): it returns exactly len(queries)
\* result lists and the i-th list holds the hits for queries[i], whatever
\* order or number of per-query results the backend hands back.
C20_BatchSearchOrderPreserving ==
    (fn_pc = "done" /\ fn = "batch_search") =>
        OneListPerQueryInOrder(fn_out.v, fn_in.qs, fn_in.k)

\* the same for every implementation but the custom wrapper whose batch
\* function hands back fewer lists than there are queries
C20_OrderPreservingButShortBatch ==
    (/\ fn_pc = "done"
     /\ fn = "batch_search"
     /\ (fn_in.has_batch => fn_in.nlists >= Len(fn_in.qs))) =>
        OneListPerQueryInOrder(fn_out.v, fn_in.qs, fn_in.k)

\* a backend handed back the results of two different queries in reverse
C20_Witness ==
    /\ fn_pc = "done"
    /\ fn = "batch_search"
    /\ fn_in.impl = "PyTerrierSearcher"
    /\ fn_in.qs = <<"x", "y">>
    /\ fn_in.perm = <<2, 1>>
    /\ Len(fn_out.v) = 2

(***************************************************************************)
(* reformulate_batch over the classes with a parallel flag: a sequential   *)
(* GenQREnsemble takes MaxGen generations for every query.                 *)
(***************************************************************************)
BatchGenMethods == {"genqr_ensemble", "mugi", "query2doc"}

\* the configurations of these runs: GenQREnsemble with MaxGen variants run
\* one after the other or with one variant run in a pool, MuGI with one
\* document in every mode, Query2Doc in few-shot mode
BatchGenParamsOf(m) ==
    CASE m = "genqr_ensemble" ->
           {p \in ParamsOf(m) : p.n = IF p.parallel THEN 1 ELSE MaxGen}
      [] m = "mugi" -> {p \in ParamsOf(m) : p.n = 1 /\ p.adaptive_times = 6}
      [] m = "query2doc" -> {p \in ParamsOf(m) : p.mode = "fs"}

InitBatchGen ==
    /\ \E m \in BatchGenMethods : \E p \in BatchGenParamsOf(m) : Constructed(m, p)
    /\ BatchIdle
    /\ JsonIdle
    /\ PromptIdle

\* reformulate_batch is called without a ctx_map, which these classes do not
\* read: out = []
BatchGenCall ==
    /\ bpc = "idle"
    /\ pc = "idle"
    /\ queries' \in UNION {[1..k -> Queries] : k \in 0..MaxCalls}
    /\ ctx_map' = NoneVal
    /\ out' = <<>>
    /\ passed' = <<>>
    /\ bpc' = "loop"
    /\ UNCHANGED <<reformVars, notBatch>>

NextBatchGen ==
    \/ BatchGenCall
    \/ BatchIterate
    \/ BatchAppend
    \/ BatchRaise
    \/ BatchReturn
    \/ ChatReturn
    \/ ChatRaise
    \/ \E i \in 1..MaxSlots : TaskStart(i)
    \/ \E i \in 1..MaxSlots : TaskReturn(i)
    \/ \E i \in 1..MaxSlots : TaskRaise(i)
    \/ \E i \in 1..MaxSlots : Collect(i)
    \/ \E i \in 1..MaxSlots : CollectFailed(i)
    \/ Unwind

SpecBatchGen == InitBatchGen /\ [][NextBatchGen]_vars

\* the chat requests that have been issued and have not come back
InFlight == {i \in 1..MaxSlots : fut[i] = "running"}

\* the generations submitted to a pool and not started yet
Submitted == {i \in 1..MaxSlots : fut[i] = "pending"}

\* a chat request is issued in this step
StartsCall == \E i \in 1..MaxSlots : fut'[i] = "running" /\ fut[i] # "running"

\* reformulate is entered in this step
EntersReformulate == ncalls' = ncalls + 1

\* at most one request is in flight, none waits in a pool, and the requests
\* before the one in flight have all returned
OneCallAtATime ==
    /\ Cardinality(InFlight) <= 1
    /\ Submitted = {}
    /\ \A i \in InFlight : \A j \in 1..(i - 1) : fut[j] = "finished"

\* a request is issued only in a step in which every earlier request has come
\* back, and reformulate is entered only when no request is outstanding
CallsOneAfterAnother ==
    /\ StartsCall => \A j \in InFlight : fut'[j] \in {"finished", "failed"}
    /\ EntersReformulate => /\ InFlight = {}
                            /\ Submitted = {}
                            /\ bpc = "loop" => Len(out) = Len(passed)

\* C21: with the parallel flag unset or false, at most one chat request is in
\* flight at any time, each request of a method with several generations is
\* issued only once the previous one has returned, and reformulate_batch
\* enters reformulate for the next query only when every request of the
\* previous query has come back and its result has been appended.
C21_SequentialOneCallAtATime ==
    /\ [](~params.parallel => OneCallAtATime)
    /\ [][~params.parallel => CallsOneAfterAnother]_vars

\* the second request of the second query of a batch is in flight
C21_Witness ==
    /\ ~params.parallel
    /\ bpc = "calling"
    /\ Len(out) = 1
    /\ fut[1] = "finished"
    /\ fut[2] = "running"

\* the generations one reformulate call of the instance makes
Generations == 1..NumCalls(method, params)

\* the futures the pool holds, whatever their state
Futures == {i \in 1..MaxSlots : fut[i] # "none"}

\* the generation outputs a result of GenQREnsemble or MuGI carries
OutputsIn(r) ==
    IF method = "genqr_ensemble"
    THEN [i \in DOMAIN r.metadata.variant_outputs |->
             r.metadata.variant_outputs[i].raw_output]
    ELSE r.metadata.pseudo_docs

\* the answers of the tasks, each as the result keeps it
Kept(i) == IF method = "mugi" THEN CleanQuotes(raw[i]) ELSE raw[i]

\* C22: in parallel mode reformulate of GenQREnsemble and MuGI (of MuGI with
\* a mode it accepts: it rejects any other before it generates) submits
\* exactly N generation tasks; a result exists only when all N have finished
\* and then carries exactly N generation outputs, one per task; and when a
\* task has failed no result is returned and the exception leaves reformulate
\* only when no task is pending or running.
C22_ParallelJoinsAllTasks ==
    IsParallel(method, params) /\ ~InvalidMode(method, params) /\ pc # "idle" =>
        /\ Futures = Generations
        /\ result # <<>> =>
              /\ pc = "done"
              /\ \A i \in Generations : fut[i] = "finished" /\ InOrder(i)
              /\ Len(order) = NumCalls(method, params)
              /\ DOMAIN OutputsIn(result[1]) = Generations
              /\ \A i \in Generations :
                     \E k \in Generations : OutputsIn(result[1])[k] = Kept(i)
        /\ pc = "done" => result # <<>>
        /\ ChatFailed /\ Ended =>
              /\ pc = "raised"
              /\ result = <<>>
              /\ InFlight = {}
              /\ Submitted = {}

\* a task has failed, the other one has finished, and reformulate has raised
C22_Witness ==
    /\ IsParallel(method, params)
    /\ pc = "raised"
    /\ \E i, j \in Generations : fut[i] = "failed" /\ fut[j] = "finished"

(***************************************************************************)
(* reformulate under every value of cfg.retries.                           *)
(***************************************************************************)
MaxRetries == 2

\* the configurations of these runs: the parameters the classes read, without
\* the retrieval settings
RetriesParamsOf(m) == {p \in ParamsOf(m) : DOMAIN p = DOMAIN DefaultParams}

InitRetries ==
    /\ \E m \in Methods : \E p \in RetriesParamsOf(m) : \E r \in {0, MaxRetries} :
           ConstructedWith(m, p, r)
    /\ BatchIdle
    /\ JsonIdle
    /\ PromptIdle

SpecRetries == InitRetries /\ [][Next]_vars

\* the number of chat requests the method description gives for one reformulate
NominalCalls ==
    CASE method \in {"query2doc", "query2e"} -> 1
      [] method = "genqr" -> params.n
      [] method = "qa_expand" -> 3
      [] OTHER -> NumCalls(method, params)

\* C23: whatever cfg.retries is, a sequential reformulate call issues no chat
\* request after one has raised (the call has ended, with the fallback result
\* or with the exception) and never issues more requests than the nominal
\* count of its method: 1 for Query2Doc and Query2E, n_generations for
\* GENQR, 3 for QAExpand.
C23_NoRetryAfterFailure ==
    ~IsParallel(method, params) =>
        /\ Len(sent) <= NominalCalls
        /\ ChatFailed =>
              /\ pc \in {"done", "raised"}
              /\ InFlight = {}
              /\ Len(sent) = Len(order) + 1

\* retries are configured, the first of two GENQR generations has raised and
\* the call has ended after that single request
C23_Witness ==
    /\ retries > 0
    /\ method = "genqr"
    /\ params.n = 2
    /\ fut[1] = "failed"
    /\ pc = "raised"
    /\ Len(sent) = 1

\* a QAExpand call has ended and every chat request it issued returned a text
QAExpandEnded == method = "qa_expand" /\ Ended /\ ~ChatFailed

\* the three requests of QAExpand in their order: the sub-question prompt,
\* the answer prompt over the questions object of the first answer, the
\* refine prompt over the query and the second answer as returned
ThreeCallsInOrder ==
    /\ Len(sent) = 3
    /\ sent[1] = Msg("qa_expand.subq.v1", q.text, <<>>, 1)
    /\ sent[2] = [id |-> "qa_expand.answer.v1",
                  questions |-> QuestionsJson(raw[1]), n |-> 1]
    /\ sent[3] = [id |-> "qa_expand.refine.v1", query |-> q.text,
                  answers |-> raw[2], n |-> 1]

\* the returned string is three copies of the query before the refined text
ThreeRepeats ==
    /\ Returned
    /\ result[1].reformulated =
           QueryRepeatPlusGenerated(q.text, result[1].metadata.refined_text, 3)

\* C24: whatever texts the chat requests return, a QAExpand call issues
\* exactly three requests, in the order sub-question, answer, refine, the
\* answer prompt rendered from the questions object of the first answer and
\* the refine prompt from the query and the second answer as returned, and
\* returns the query three times before the refined text.
C24_QAExpandThreeCallsInOrder ==
    QAExpandEnded => ThreeCallsInOrder /\ ThreeRepeats

\* the same for the calls that return a result
C24_ThreeCallsInOrderWhenReturned ==
    method = "qa_expand" /\ Returned => ThreeCallsInOrder /\ ThreeRepeats

\* a QAExpand call has returned after a first answer that is a numbered list
C24_Witness ==
    /\ method = "qa_expand"
    /\ Returned
    /\ raw[1] = <<"1", ".", " ", "a", "\n", "Q", "2", ":", " ", "b">>

\* the pairs of the JSON object a text holds; none when it holds no object
PairsOfJson(text) ==
    IF JsonLoads(text).ok /\ JsonLoads(text).val.t = "dict"
    THEN JsonLoads(text).val.kv
    ELSE <<>>

ThreeQuestionKeys == {<<"question1">>, <<"question2">>, <<"question3">>}

\* the questions object of a request is an object of exactly question1,
\* question2 and question3, each a string
ThreeQuestions(text) ==
    /\ Len(PairsOfJson(text)) = 3
    /\ {PairsOfJson(text)[i][1] : i \in 1..3} = ThreeQuestionKeys
    /\ \A i \in 1..3 : PairsOfJson(text)[i][2].t = "str"

\* the answer request of a QAExpand call has been issued
AnswerRequested == method = "qa_expand" /\ Len(sent) >= 2

\* C25: whatever the first answer of a QAExpand call is (a numbered list, plain
\* lines, JSON with any number of keys), the questions object of the answer
\* request has exactly the entries question1, question2 and question3, with
\* the empty string for a question that was not found.
C25_ExactlyThreeQuestions == AnswerRequested => ThreeQuestions(sent[2].questions)

\* the same for the first answers that are not a JSON object with a question key
C25_ThreeQuestionsFromLines ==
    AnswerRequested /\ ~HasQuestionKeys(ParseLLMJson(raw[1])) =>
        /\ ThreeQuestions(sent[2].questions)
        /\ sent[2].questions = QuestionsJson(raw[1])

\* the classes that parse what the LLM answers
ParsingMethods == {"qa_expand", "csqe", "genqr_ensemble", "genqr", "query2e"}

\* a call of a parsing class has ended and every chat request it issued
\* returned a text
ParsedAndEnded == method \in ParsingMethods /\ Ended /\ ~ChatFailed

\* C26: whatever texts the LLM returns (empty, garbage, a JSON list or scalar,
\* text without commas, quotes or numbering), reformulate of QAExpand, CSQE,
\* GenQREnsemble, GENQR and Query2E returns a result and raises nothing
\* because of the format of a text.
C26_ParsingNeverRaises == ParsedAndEnded => Returned /\ error = "none"

\* the same without QAExpand; and QAExpand, when it returns, takes the refine
\* answer as returned for the refined text when no JSON value is parsed from it
C26_ParsingNeverRaisesButQAExpand ==
    /\ ParsedAndEnded /\ method # "qa_expand" => Returned /\ error = "none"
    /\ method = "qa_expand" /\ Returned /\ ~Truthy(ParseLLMJson(raw[3])) =>
           result[1].metadata.refined_text = raw[3]

\* the call of CSQE's concatenation has returned
CSQEDone == fn = "csqe_reformulated" /\ fn_pc = "done"

\* the lowercased single-space join of the parts of the call
CSQELowerJoin ==
    Lower(JoinSp(CSQEParts(fn_in.query, fn_in.n, fn_in.keqe_passages,
                           fn_in.csqe_sentences)))

\* no character of the text changes when it is lowercased
NoUppercase(text) == Lower(text) = text

\* the text begins with the prefix
BeginsWith(text, prefix) ==
    Len(prefix) <= Len(text) /\ SubSeq(text, 1, Len(prefix)) = prefix

\* C27: for every query text and every LLM outputs, the reformulated string of
\* CSQE is the lowercased single-space join of gen_num copies of the query,
\* the knowledge passages and the extracted sentences; it has no uppercase
\* character and begins with gen_num space-separated copies of the
\* lowercased query text.
C27_CSQELowercasedJoin ==
    CSQEDone =>
        /\ fn_out.v = CSQELowerJoin
        /\ NoUppercase(fn_out.v)
        /\ BeginsWith(fn_out.v, JoinSp(Repeat(Lower(fn_in.query), fn_in.n)))

\* what holds of every call: the string is that join without the blanks and
\* then the quotes at its two ends, and has no uppercase character
C27_CSQELowercasedJoinStripped ==
    CSQEDone =>
        /\ fn_out.v = StripChars(StripChars(Strip(CSQELowerJoin), {"\""}), {"'"})
        /\ NoUppercase(fn_out.v)
        /\ \E i \in 0..Len(CSQELowerJoin) :
               fn_out.v = SubSeq(CSQELowerJoin, i + 1, i + Len(fn_out.v))

\* the call that builds the contexts block has returned
ContextsDone == fn = "contexts_blob" /\ fn_pc = "done"

\* the contexts the call was given, none for None
GivenContexts == OrEmptyList(fn_in.contexts)

\* min(len(contexts), retrieval_k)
FirstK == Min(Len(GivenContexts), fn_in.retrieval_k)

\* the block is the first n of the given contexts, one per line in their
\* order, line i numbered i; the empty string when there is none
BlockOfFirst(n) ==
    IF n <= 0 \/ GivenContexts = <<>>
    THEN fn_out.v.contexts_blob = <<>>
    ELSE /\ Len(Split(fn_out.v.contexts_blob, "\n")) = n
         /\ \A i \in 1..n :
                Split(fn_out.v.contexts_blob, "\n")[i] =
                    <<NumStr[i], ".", " ">> \o GivenContexts[i]

\* C28: for every configured retrieval_k the contexts block of the LameR and
\* CSQE prompt holds exactly the first min(len(contexts), retrieval_k)
\* contexts, in their order and numbered from 1, metadata used_ctx is that
\* count, and the block of an empty context list is the empty string.
C28_FirstKContextsInBlock ==
    ContextsDone =>
        /\ fn_out.v.used_ctx = FirstK
        /\ BlockOfFirst(FirstK)

\* the same for the retrieval_k that are not negative
C28_FirstKContextsForNaturalK ==
    ContextsDone /\ fn_in.retrieval_k >= 0 =>
        /\ fn_out.v.used_ctx = FirstK
        /\ BlockOfFirst(FirstK)

\* LameR renders the prompt once: a call that returns has issued gen_passages
\* requests with the same messages, over the block of its contexts, also when
\* there is no context
C28_LameRSameMessages ==
    method = "lamer" /\ Returned =>
        /\ Len(sent) = params.n
        /\ \A i \in 1..Len(sent) :
               sent[i] = Msg("lamer.msmarco.v1", q.text, Blob(params, contexts), 1)
        /\ OrEmptyList(contexts) = <<>> => sent[1].arg = <<>>

\* reformulate is entered in few-shot mode in this step
FewShotCall == EntersReformulate /\ NeedsLoad(method, params)

\* once the data are cached no step invokes the loaders or changes the data
CachedDataKept ==
    fewshot_data # None => fewshot_data' = fewshot_data /\ loads' = loads

\* a few-shot call on an instance without cached data whose paths are
\* configured invokes the loaders; the cache stays unset exactly when the
\* load fails, and the call then returns the fallback
LoadsWhenUnset ==
    FewShotCall /\ fewshot_data = None /\ params.fewshot =>
        /\ loads' = loads + 1
        /\ fewshot_data' = None <=>
               result' = <<FallbackResult(params, q', "Failed to load")>>

\* C29: the few-shot data of a Query2Doc or Query2E instance are loaded at
\* most once: after the first successful load every later few-shot call on
\* the instance keeps the cached data as they are and does not invoke the
\* loaders, and a failed load leaves the cache unset, so that the next
\* few-shot call invokes the loaders again.
C29_FewShotDataLoadedOnce ==
    /\ [](fewshot_data # None => loads >= 1)
    /\ [][CachedDataKept /\ LoadsWhenUnset]_vars

\* the second few-shot call on an instance runs on the data the first loaded
C29_Witness ==
    /\ NeedsLoad(method, params)
    /\ ncalls = 2
    /\ pc = "chat"
    /\ fewshot_data # None
    /\ loads = 1

\* the first load failed and the second call has loaded the data
C29_WitnessRetry ==
    /\ NeedsLoad(method, params)
    /\ ncalls = 2
    /\ fewshot_data # None
    /\ loads = 2

\* the chat request of a Query2Doc call has returned a text of blanks only,
\* the empty text included, and the call has ended
BlankCompletion ==
    /\ method = "query2doc"
    /\ Ended
    /\ order = <<1>>
    /\ \A i \in 1..Len(raw[1]) : raw[1][i] \in Whitespace

\* C30: when the chat request of Query2Doc returns an empty or
\* whitespace-only text, reformulate raises nothing and returns no expanded
\* query: the result is the identity fallback, reformulated equal to the
\* original text, metadata fallback true and error set, without a pseudo_doc
\* entry.
C30_BlankCompletionFallsBack ==
    BlankCompletion =>
        /\ Returned
        /\ error = "none"
        /\ result[1].original = q.text
        /\ result[1].reformulated = q.text
        /\ "fallback" \in DOMAIN result[1].metadata
        /\ result[1].metadata.fallback = TRUE
        /\ "error" \in DOMAIN result[1].metadata
        /\ result[1].metadata.error # ""
        /\ "pseudo_doc" \notin DOMAIN result[1].metadata

\* a Query2Doc call on a query that is not empty has ended after a completion
\* of one blank
C30_Witness ==
    /\ BlankCompletion
    /\ raw[1] = <<" ">>
    /\ q.text # <<>>
    /\ pc = "done"

====
